---------------------------- MODULE Spec2Model ----------------------------
(***************************************************************************)
(* Greenhouse simulation engine: GreenhouseManager.ts (registry, actuator  *)
(* setters, speed control, tick timer) and SensorSimulator.ts (environment *)
(* engine, table growth engine, simulated clock).                          *)
(*                                                                         *)
(* Numbers.  The TypeScript code computes with IEEE doubles.  The model    *)
(* uses fixed point: temperature, humidity, soilMoisture, soilFertility,   *)
(* plantSize, shading, simulationSpeed and timeStep are integers that      *)
(* count thousandths (Scale) of the unit of the code; growth factors are   *)
(* per mille.  A product or quotient is truncated toward zero to that      *)
(* resolution, where the double would be rounded at its 16th digit.        *)
(* plantCount, artLight, lightIntensity, currentDay and minuteOfTheDay are *)
(* the plain numbers of the code.                                          *)
(***************************************************************************)
EXTENDS Integers, Sequences, FiniteSets, TLC

VARIABLES
    greenhouses,          \* GreenhouseManager.greenhouses: id -> GreenhouseData
    ventilationStartTime, \* SensorSimulator.ventilationStartTime: Map<id, minute>
    overFertilizerTime,   \* SensorSimulator.overFertilizerTime: Map<<gh,table>, minutes>
    currentDay,           \* SensorSimulator.currentDay
    minuteOfTheDay,       \* SensorSimulator.minuteOfTheDay
    environmentData,      \* SensorSimulator.environmentData: tavg of each record
    simulationInterval,   \* GreenhouseManager.simulationInterval: 0 = null, else a timer handle
    activeTimers,         \* the host's live interval timers: handle -> period
    dataSaveInterval,     \* GreenhouseManager.dataSaveInterval
    timeStep,             \* GreenhouseManager.timeStep
    simulationSpeed,      \* GreenhouseManager.simulationSpeed
    lane,                 \* the host's single execution lane: idle, inside a tick, or exited
    lastCall,             \* the last entry point run, its arguments and its return value
    tickLog,              \* locals of updateTableData in the last tick, per table
    callCount,            \* number of boundary calls made so far
    tickCount             \* number of ticks run so far

vars == <<greenhouses, ventilationStartTime, overFertilizerTime, currentDay,
          minuteOfTheDay, environmentData, simulationInterval, activeTimers,
          dataSaveInterval, timeStep, simulationSpeed, lane, lastCall, tickLog,
          callCount, tickCount>>

\* everything the simulator and the manager own (all but the observation variables)
programState == <<greenhouses, ventilationStartTime, overFertilizerTime, currentDay,
                  minuteOfTheDay, environmentData, simulationInterval, activeTimers,
                  dataSaveInterval, timeStep, simulationSpeed>>

-----------------------------------------------------------------------------
(* Bounds of the model *)

NumGreenhouses == 1      \* greenhouses modelled (the code builds 4)
NumTables == 1           \* tables per greenhouse modelled (the code builds 8)
MaxTicks == 4            \* ticks of one run from the constructed state
MaxEngineTicks == 3      \* ticks of one run of the engine from a drawn state
MaxCalls == 1            \* boundary calls (setters, speed, stop) of one run

(* Fixed point *)
Scale == 10 ^ 3

(* Program constants, SensorSimulator.ts lines 16-29, scaled where they are reals *)
BASE_GROWTH_RATE == 200          \* 0.2 cm per minute
OPTIMAL_TEMP == 22000
DEATH_TEMP == 60000
OPTIMAL_MOISTURE_MIN == 50000
OPTIMAL_MOISTURE_MAX == 80000
MAX_HUMIDITY == 85000
WATER_INCREASE_RATE == 3000
EVAPORATION_RATE == 600
FERTILIZER_RATE == 20000
OVER_FERTILIZER_DEATH == 10      \* minutes (a count)
FERTILIZER_DECAY == 1000
MAX_PLANT_SIZE == 15000
VENTILATION_EXCHANGE_TIME == 30  \* minutes (a count)
LIGHT_HEAT_EFFECT == 6           \* 3 / 500 degrees per lux
baseTimeStep == 100000           \* 100 ms
InitialDay == 100

GreenhouseIds == 1..NumGreenhouses
TableIds == 1..NumTables
TableKeys == GreenhouseIds \X TableIds

-----------------------------------------------------------------------------
(* Arithmetic helpers *)

Min(a, b) == IF a <= b THEN a ELSE b
Max(a, b) == IF a >= b THEN a ELSE b

\* a / b truncated toward zero, b > 0
Trunc(a, b) == IF a >= 0 THEN a \div b ELSE -((-a) \div b)

\* Math.ceil(n * 0.01) for an integer n
CeilPercent(n) == IF n >= 0 THEN (n + 99) \div 100 ELSE -((-n) \div 100)

\* Math.floor(n * 0.95) for an integer n
Floor95(n) == (n * 19) \div 20

\* Math.round(x) for x given in thousandths: floor(x + 0.5)
Round(x) == (x + Scale \div 2) \div Scale


-----------------------------------------------------------------------------
(* Growth factors, per mille (SensorSimulator.ts 237-285) *)

calculateMoistureFactor(moisture) ==
    IF moisture >= OPTIMAL_MOISTURE_MIN /\ moisture <= OPTIMAL_MOISTURE_MAX THEN Scale
    ELSE IF moisture < OPTIMAL_MOISTURE_MIN
         THEN Trunc(moisture * Scale, OPTIMAL_MOISTURE_MIN)
    ELSE IF moisture > OPTIMAL_MOISTURE_MAX
         THEN Max(0, Trunc((100 * Scale - moisture) * Scale, 20 * Scale))
    ELSE 0

calculateFertilityFactor(fertility) ==
    IF fertility >= 60 * Scale /\ fertility <= 100 * Scale THEN Scale
    ELSE IF fertility < 60 * Scale THEN Trunc(fertility * Scale, 60 * Scale)
    ELSE IF fertility > 100 * Scale
         THEN Max(0, Scale - Trunc((fertility - 100 * Scale) * Scale, 50 * Scale))
    ELSE 0

\* calculateLightFactor without its two upper branches: totalLight / 400 throughout
calculateLightFactorUnbounded(houseLight, tableLight) ==
    LET totalLight == houseLight + tableLight
    IN  Trunc(totalLight * Scale, 400)

calculateLightFactor(houseLight, tableLight) ==
    LET totalLight == houseLight + tableLight
    IN  IF totalLight >= 400 /\ totalLight <= 800 THEN Scale
        ELSE IF totalLight < 400 THEN Trunc(totalLight * Scale, 400)
        ELSE Max(Scale \div 2, Trunc(800 * Scale, totalLight))

calculateTemperatureFactor(temp) ==
    LET optimalTemp == OPTIMAL_TEMP
    IN  IF temp < 5 * Scale THEN 0
        ELSE IF temp < optimalTemp
             THEN Trunc((temp - 5 * Scale) * Scale, optimalTemp - 5 * Scale)
        ELSE IF temp = optimalTemp THEN Scale
        ELSE IF temp <= 40 * Scale
             THEN Scale - Trunc((temp - optimalTemp) * Scale, 40 * Scale - optimalTemp)
        ELSE Max(0, Scale - Trunc((temp - 40 * Scale) * Scale, DEATH_TEMP - 40 * Scale))

\* BASE_GROWTH_RATE * moistureFactor * fertilityFactor * lightFactor * temperatureFactor,
\* in thousandths of a cm (lines 187-191); the running product keeps six decimals
growthRateOf(moistureFactor, fertilityFactor, lightFactor, temperatureFactor) ==
    LET g1 == BASE_GROWTH_RATE * moistureFactor
        g2 == Trunc(g1 * fertilityFactor, Scale)
        g3 == Trunc(g2 * lightFactor, Scale)
        g4 == Trunc(g3 * temperatureFactor, Scale)
    IN  Trunc(g4, Scale)

\* Math.floor(480 / (sizeRatio * sizeRatio)), sizeRatio = plantSize / MAX_PLANT_SIZE,
\* i.e. floor(480 * MAX_PLANT_SIZE^2 / plantSize^2), computed in two divisions that
\* stay within 32 bits.  From sizeRatio 5 on the quotient is at most 19 whatever
\* its last digits (calculateMaxPlants then answers 24), and a coarser division
\* that cannot overflow is used.
FloorMaxPlants(plantSize) ==
    IF plantSize >= 5 * MAX_PLANT_SIZE
    THEN (480 * 25 * 25) \div ((plantSize \div 600) * (plantSize \div 600))
    ELSE LET x == 480 * MAX_PLANT_SIZE
             q == x \div plantSize
             r == x % plantSize
             first == q * MAX_PLANT_SIZE + (r * MAX_PLANT_SIZE) \div plantSize
         IN  first \div plantSize

calculateMaxPlants(plantSize) ==
    IF plantSize <= 2 * Scale THEN 480
    ELSE LET maxPlants == FloorMaxPlants(plantSize)
         IN  Max(24, maxPlants)

-----------------------------------------------------------------------------
(* Map<K, V> of the simulator's side tables *)

EmptyMap == [k \in {} |-> 0]
MapHas(m, k) == k \in DOMAIN m
MapSet(m, k, v) == [x \in (DOMAIN m) \cup {k} |-> IF x = k THEN v ELSE m[x]]
MapDelete(m, k) == [x \in (DOMAIN m) \ {k} |-> m[x]]

-----------------------------------------------------------------------------
(* Table growth engine (SensorSimulator.ts 120-235, 300-320) *)

\* the locals of one updateTableData call that the end state does not show
NoLog == [path |-> "none", plantsBefore |-> 0, deathCount |-> 0, replanted |-> FALSE,
          harvested |-> FALSE, harvestCount |-> 0, harvestReplanted |-> FALSE,
          plantsToRemove |-> 0, aboveStreak |-> 0]

\* replantTable leaving plantedDate as it was
replantTableKeepDate(table, day) ==
    [table EXCEPT !.plantCount = 480,
                  !.plantSize = 2 * Scale,
                  !.soilFertility = Min(100 * Scale, table.soilFertility + 20 * Scale)]

\* replantTable closing the water and fertilizer valves of the new planting
replantTableValvesOff(table, day) ==
    [table EXCEPT !.plantCount = 480,
                  !.plantSize = 2 * Scale,
                  !.soilFertility = Min(100 * Scale, table.soilFertility + 20 * Scale),
                  !.plantedDate = day,
                  !.water = FALSE,
                  !.fertilizer = FALSE]

\* replantTable adding its 20 points without the cap of 100
replantTableUncapped(table, day) ==
    [table EXCEPT !.plantCount = 480,
                  !.plantSize = 2 * Scale,
                  !.soilFertility = table.soilFertility + 20 * Scale,
                  !.plantedDate = day]

\* lines 314-320
replantTable(table, day) ==
    [table EXCEPT !.plantCount = 480,
                  !.plantSize = 2 * Scale,
                  !.soilFertility = Min(100 * Scale, table.soilFertility + 20 * Scale),
                  !.plantedDate = day]

\* harvestPlants replanting at 24 left as well ("<= 24")
harvestPlantsReplantAt24(table, day) ==
    LET harvestCount == Floor95(table.plantCount)
        t1 == [table EXCEPT !.plantCount = table.plantCount - harvestCount]
    IN  IF t1.plantCount <= 24
        THEN [table |-> replantTable(t1, day), harvestCount |-> harvestCount,
              replanted |-> TRUE]
        ELSE [table |-> t1, harvestCount |-> harvestCount, replanted |-> FALSE]

\* harvestPlants taking four plants in five, not 95%
harvestPlantsFourFifths(table, day) ==
    LET harvestCount == (table.plantCount * 4) \div 5
        t1 == [table EXCEPT !.plantCount = table.plantCount - harvestCount]
    IN  IF t1.plantCount < 24
        THEN [table |-> replantTable(t1, day), harvestCount |-> harvestCount,
              replanted |-> TRUE]
        ELSE [table |-> t1, harvestCount |-> harvestCount, replanted |-> FALSE]

\* harvestPlants without the replant of lines 309-311
harvestPlantsNoReplant(table, day) ==
    LET harvestCount == Floor95(table.plantCount)
    IN  [table |-> [table EXCEPT !.plantCount = table.plantCount - harvestCount],
         harvestCount |-> harvestCount, replanted |-> FALSE]

\* lines 300-312: [table, harvestCount, replanted]
harvestPlants(table, day) ==
    LET harvestCount == Floor95(table.plantCount)
        t1 == [table EXCEPT !.plantCount = table.plantCount - harvestCount]
    IN  IF t1.plantCount < 24
        THEN [table |-> replantTable(t1, day), harvestCount |-> harvestCount,
              replanted |-> TRUE]
        ELSE [table |-> t1, harvestCount |-> harvestCount, replanted |-> FALSE]

\* overFertilizationCheck counting from fertility 100 on (">= 100")
overFertilizationCheckFrom100(table, tableKey, overFert) ==
    IF table.soilFertility >= 100 * Scale
    THEN LET m0 == IF ~MapHas(overFert, tableKey) THEN MapSet(overFert, tableKey, 0)
                   ELSE overFert
             overTime == m0[tableKey] + 1
             m1 == MapSet(m0, tableKey, overTime)
         IN  IF overTime >= OVER_FERTILIZER_DEATH
             THEN [died |-> TRUE, overFert |-> MapDelete(m1, tableKey)]
             ELSE [died |-> FALSE, overFert |-> m1]
    ELSE [died |-> FALSE, overFert |-> MapDelete(overFert, tableKey)]

\* overFertilizationCheck keeping its count when the fertility is back at 100 or less
overFertilizationCheckSticky(table, tableKey, overFert) ==
    IF table.soilFertility > 100 * Scale
    THEN LET m0 == IF ~MapHas(overFert, tableKey) THEN MapSet(overFert, tableKey, 0)
                   ELSE overFert
             overTime == m0[tableKey] + 1
             m1 == MapSet(m0, tableKey, overTime)
         IN  IF overTime >= OVER_FERTILIZER_DEATH
             THEN [died |-> TRUE, overFert |-> MapDelete(m1, tableKey)]
             ELSE [died |-> FALSE, overFert |-> m1]
    ELSE [died |-> FALSE, overFert |-> overFert]

\* lines 136-153: [died, overFert]
overFertilizationCheck(table, tableKey, overFert) ==
    IF table.soilFertility > 100 * Scale
    THEN LET m0 == IF ~MapHas(overFert, tableKey) THEN MapSet(overFert, tableKey, 0)
                   ELSE overFert
             overTime == m0[tableKey] + 1
             m1 == MapSet(m0, tableKey, overTime)
         IN  IF overTime >= OVER_FERTILIZER_DEATH
             THEN [died |-> TRUE, overFert |-> MapDelete(m1, tableKey)]
             ELSE [died |-> FALSE, overFert |-> m1]
    ELSE [died |-> FALSE, overFert |-> MapDelete(overFert, tableKey)]

\* waterManagement with the two Math.min caps forgotten
waterManagementUncapped(table, house) ==
    IF table.water
    THEN LET t1 == [table EXCEPT !.soilMoisture = table.soilMoisture + WATER_INCREASE_RATE]
         IN  IF t1.fertilizer
             THEN [t1 EXCEPT !.soilFertility = t1.soilFertility + FERTILIZER_RATE]
             ELSE t1
    ELSE table

\* waterManagement with the fertilizer acting whether or not the water runs
waterManagementFertilizerAlone(table, house) ==
    LET fed == IF table.fertilizer
               THEN [table EXCEPT !.soilFertility =
                         Min(150 * Scale, table.soilFertility + FERTILIZER_RATE)]
               ELSE table
    IN  IF table.water
        THEN [fed EXCEPT !.soilMoisture =
                  Min(100 * Scale, table.soilMoisture + WATER_INCREASE_RATE)]
        ELSE fed

\* lines 155-173: water management
waterManagement(table, house) ==
    IF table.water
    THEN LET t1 == [table EXCEPT !.soilMoisture =
                        Min(100 * Scale, table.soilMoisture + WATER_INCREASE_RATE)]
         IN  IF t1.fertilizer
             THEN [t1 EXCEPT !.soilFertility =
                       Min(150 * Scale, t1.soilFertility + FERTILIZER_RATE)]
             ELSE t1
    ELSE LET tempFactor == Max(0, Trunc((house.temperature - 10 * Scale) * Scale, 40 * Scale))
             humidityFactor == Max(0, Scale - Trunc(house.humidity * Scale, 100 * Scale))
             evaporationRate == Trunc(EVAPORATION_RATE * tempFactor * humidityFactor,
                                      Scale * Scale)
         IN  [table EXCEPT !.soilMoisture = Max(0, table.soilMoisture - evaporationRate)]

\* fertilizerDecay as if the soil kept its fertility
fertilizerDecayNone(table) == table

\* lines 175-178
fertilizerDecay(table) ==
    IF table.soilFertility > 0
    THEN [table EXCEPT !.soilFertility = Max(0, table.soilFertility - FERTILIZER_DECAY)]
    ELSE table

\* lines 180-196
growPlants(table, house) ==
    LET moistureFactor == calculateMoistureFactor(table.soilMoisture)
        fertilityFactor == calculateFertilityFactor(table.soilFertility)
        lightFactor == calculateLightFactor(house.lightIntensity, table.artLight)
        temperatureFactor == calculateTemperatureFactor(house.temperature)
        growthRate == growthRateOf(moistureFactor, fertilityFactor, lightFactor,
                                   temperatureFactor)
    IN  IF growthRate > 0 THEN [table EXCEPT !.plantSize = table.plantSize + growthRate]
        ELSE table

\* droughtDeath rounding the 1% down
droughtDeathRoundedDown(table) ==
    IF table.soilMoisture < 10 * Scale
    THEN LET deathCount == table.plantCount \div 100
         IN  [table |-> [table EXCEPT !.plantCount = Max(0, table.plantCount - deathCount)],
              deathCount |-> deathCount]
    ELSE [table |-> table, deathCount |-> 0]

\* lines 198-205: [table, deathCount]
droughtDeath(table) ==
    IF table.soilMoisture < 10 * Scale
    THEN LET deathCount == CeilPercent(table.plantCount)
         IN  [table |-> [table EXCEPT !.plantCount = Max(0, table.plantCount - deathCount)],
              deathCount |-> deathCount]
    ELSE [table |-> table, deathCount |-> 0]

\* crowding as if each pass pushed out only half of the excess (rounded up)
crowdingHalfExcess(table) ==
    LET maxPlants == calculateMaxPlants(table.plantSize)
        plantsToRemove == (table.plantCount - maxPlants + 1) \div 2
    IN  IF table.plantCount > maxPlants
        THEN [table |-> [table EXCEPT !.plantCount = table.plantCount - plantsToRemove],
              plantsToRemove |-> plantsToRemove]
        ELSE [table |-> table, plantsToRemove |-> 0]

\* crowding comparing with the capacity plus one: one plant too many stays
crowdingOneOver(table) ==
    LET maxPlants == calculateMaxPlants(table.plantSize) + 1
    IN  IF table.plantCount > maxPlants
        THEN [table |-> [table EXCEPT !.plantCount = maxPlants],
              plantsToRemove |-> table.plantCount - maxPlants]
        ELSE [table |-> table, plantsToRemove |-> 0]

\* lines 220-230: [table, plantsToRemove]
crowding(table) ==
    LET maxPlants == calculateMaxPlants(table.plantSize)
    IN  IF table.plantCount > maxPlants
        THEN [table |-> [table EXCEPT !.plantCount = maxPlants],
              plantsToRemove |-> table.plantCount - maxPlants]
        ELSE [table |-> table, plantsToRemove |-> 0]

\* mirrorTemperature as if line 213 were missing
mirrorTemperatureSkipped(table, house) == table

\* lines 212-213: the table takes the temperature of its greenhouse
mirrorTemperature(table, house) == [table EXCEPT !.temperature = house.temperature]

\* lines 207-230, the rest of a call that got past the death checks
replantHarvestCrowd(table, house, day, deathCount, plantsBefore) ==
    LET low == table.plantCount < 24
        t1 == IF low THEN replantTable(table, day) ELSE table
        t2 == mirrorTemperature(t1, house)
        doHarvest == t2.plantSize >= 30 * Scale /\ t2.soilMoisture <= 50 * Scale
        h == IF doHarvest THEN harvestPlants(t2, day)
             ELSE [table |-> t2, harvestCount |-> 0, replanted |-> FALSE]
        c == crowding(h.table)
    IN  [table |-> c.table,
         log |-> [path |-> "full", plantsBefore |-> plantsBefore,
                  deathCount |-> deathCount, replanted |-> low,
                  harvested |-> doHarvest, harvestCount |-> h.harvestCount,
                  harvestReplanted |-> h.replanted,
                  plantsToRemove |-> c.plantsToRemove, aboveStreak |-> 0]]

\* killPlants leaving the dead plants their size
killPlantsKeepSize(table) == [table EXCEPT !.plantCount = 0]

\* lines 130-131 and 145-146: all plants die
killPlants(table) == [table EXCEPT !.plantCount = 0, !.plantSize = 0]

\* earlyExit as if the engine went on with a dead table
earlyExitNever(table) == FALSE

\* lines 123-126: nothing is done for a table without plants
earlyExit(table) == table.plantCount <= 0 \/ table.plantSize <= 0

\* updateTableData(table, house): [table, overFert, log]
updateTableData(table, house, tableKey, overFert, day) ==
    IF earlyExit(table)
    THEN [table |-> table, overFert |-> overFert, log |-> [NoLog EXCEPT !.path = "dead"]]
    ELSE IF house.temperature > DEATH_TEMP
    THEN [table |-> killPlants(table),
          overFert |-> overFert,
          log |-> [NoLog EXCEPT !.path = "heat", !.plantsBefore = table.plantCount]]
    ELSE LET of == overFertilizationCheck(table, tableKey, overFert)
         IN  IF of.died
             THEN [table |-> killPlants(table),
                   overFert |-> of.overFert,
                   log |-> [NoLog EXCEPT !.path = "overfert",
                                         !.plantsBefore = table.plantCount]]
             ELSE LET t1 == waterManagement(table, house)
                      t2 == fertilizerDecay(t1)
                      t3 == growPlants(t2, house)
                      d == droughtDeath(t3)
                      r == replantHarvestCrowd(d.table, house, day, d.deathCount,
                                               table.plantCount)
                  IN  [table |-> r.table, overFert |-> of.overFert, log |-> r.log]

-----------------------------------------------------------------------------
(* Greenhouse environment engine (SensorSimulator.ts 46-49, 78-118) *)

\* environmentData[currentDay % length] || environmentData[0]: the record (its tavg),
\* or undefined when the list is empty (the index is NaN and environmentData[0] is
\* missing too)
getCurrentEnvironmentData(envData, day) ==
    IF Len(envData) = 0 THEN [undefined |-> TRUE, tavg |-> 0]
    ELSE LET dayIndex == day % Len(envData)
         IN  [undefined |-> FALSE, tavg |-> envData[dayIndex + 1]]

\* line 94 reads envData.tavg: a TypeError when envData is undefined, thrown after
\* lines 81 and 88-90 have written lightIntensity and the ventilation start
readsMissingRecord(ventilationDuration, envData) ==
    ventilationDuration >= VENTILATION_EXCHANGE_TIME /\ envData.undefined

\* updateGreenhouseEnvironment with the MAX_HUMIDITY ceiling of lines 110-113 forgotten
updateGreenhouseEnvironmentNoCeiling(greenhouse, id, envData, ventStart, minute) ==
    LET lightIntensity == Round(1000 * Scale - Trunc(1000 * greenhouse.shading, 100))
        g0 == [greenhouse EXCEPT !.lightIntensity = lightIntensity]
        v1 == IF greenhouse.fan
              THEN (IF ~MapHas(ventStart, id) THEN MapSet(ventStart, id, minute)
                    ELSE ventStart)
              ELSE MapDelete(ventStart, id)
        g1 == IF greenhouse.fan
              THEN LET ventilationDuration == minute - v1[id]
                       temp == IF ventilationDuration >= VENTILATION_EXCHANGE_TIME
                               THEN g0.temperature - Trunc(g0.temperature - envData.tavg, 10)
                               ELSE g0.temperature
                   IN  [g0 EXCEPT !.temperature = temp,
                                  !.humidity = g0.humidity
                                      - Trunc((g0.humidity - 60 * Scale) * ventilationDuration,
                                              VENTILATION_EXCHANGE_TIME * 20)]
              ELSE [g0 EXCEPT !.temperature =
                        g0.temperature + Trunc(lightIntensity * LIGHT_HEAT_EFFECT, 60)]
        g3 == [g1 EXCEPT !.temperature = Max(0, Min(70 * Scale, g1.temperature)),
                         !.humidity = Max(0, Min(100 * Scale, g1.humidity))]
    IN  IF greenhouse.fan /\ readsMissingRecord(minute - v1[id], envData)
        THEN [greenhouse |-> g0, ventStart |-> v1, threw |-> TRUE]
        ELSE [greenhouse |-> g3, ventStart |-> v1, threw |-> FALSE]

\* ventilate as if the factor 0.05 of line 103 were missing
ventilateFullExchange(greenhouse, envData, ventilationDuration) ==
    [greenhouse EXCEPT
        !.temperature = (IF ventilationDuration >= VENTILATION_EXCHANGE_TIME
                         THEN greenhouse.temperature
                                  - Trunc(greenhouse.temperature - envData.tavg, 10)
                         ELSE greenhouse.temperature),
        !.humidity = greenhouse.humidity
            - Trunc((greenhouse.humidity - 60 * Scale) * ventilationDuration,
                    VENTILATION_EXCHANGE_TIME)]

\* ventilate as if the humidity exchange, too, waited for the exchange time
ventilateGated(greenhouse, envData, ventilationDuration) ==
    IF ventilationDuration >= VENTILATION_EXCHANGE_TIME
    THEN [greenhouse EXCEPT
             !.temperature = greenhouse.temperature
                 - Trunc(greenhouse.temperature - envData.tavg, 10),
             !.humidity = greenhouse.humidity
                 - Trunc((greenhouse.humidity - 60 * Scale) * ventilationDuration,
                         VENTILATION_EXCHANGE_TIME * 20)]
    ELSE greenhouse

\* ventilate pulling the humidity toward 50 in the place of 60
ventilateTowardFifty(greenhouse, envData, ventilationDuration) ==
    LET tempDiff == greenhouse.temperature - envData.tavg
        temp == IF ventilationDuration >= VENTILATION_EXCHANGE_TIME
                THEN greenhouse.temperature - Trunc(tempDiff, 10)
                ELSE greenhouse.temperature
        humidityTarget == 50 * Scale
        humidityDiff == greenhouse.humidity - humidityTarget
    IN  [greenhouse EXCEPT !.temperature = temp,
                           !.humidity = greenhouse.humidity
                               - Trunc(humidityDiff * ventilationDuration,
                                       VENTILATION_EXCHANGE_TIME * 20)]

\* lines 92-101, the fan being on for ventilationDuration minutes: the temperature
\* is pulled toward tavg from the exchange time on, the humidity toward 60 at
\* every duration, by diff * (duration / 30) * 0.05
ventilate(greenhouse, envData, ventilationDuration) ==
    LET tempDiff == greenhouse.temperature - envData.tavg
        temp == IF ventilationDuration >= VENTILATION_EXCHANGE_TIME
                THEN greenhouse.temperature - Trunc(tempDiff, 10)
                ELSE greenhouse.temperature
        humidityTarget == 60 * Scale
        humidityDiff == greenhouse.humidity - humidityTarget
    IN  [greenhouse EXCEPT !.temperature = temp,
                           !.humidity = greenhouse.humidity
                               - Trunc(humidityDiff * ventilationDuration,
                                       VENTILATION_EXCHANGE_TIME * 20)]

\* shadedLightIntensity with Math.floor in the place of Math.round
shadedLightIntensityFloored(shading) ==
    (1000 * Scale - Trunc(1000 * shading, 100)) \div Scale

\* lines 80-81: Math.round(baseLightIntensity * (1 - shading / 100))
shadedLightIntensity(shading) ==
    LET baseLightIntensity == 1000
    IN  Round(baseLightIntensity * Scale - Trunc(baseLightIntensity * shading, 100))

\* heatFromLight as if the hourly increase were added every minute
heatFromLightPerHour(greenhouse, lightHeatIncrease) ==
    [greenhouse EXCEPT !.temperature = greenhouse.temperature + lightHeatIncrease]

\* heatFromLight as if the light could not take the temperature past 60 degrees
heatFromLightUpToSixty(greenhouse, lightHeatIncrease) ==
    [greenhouse EXCEPT !.temperature =
         Min(60 * Scale, greenhouse.temperature + Trunc(lightHeatIncrease, 60))]

\* lines 106-107, the fan being off: the temperature rises by lightHeatIncrease / 60
heatFromLight(greenhouse, lightHeatIncrease) ==
    [greenhouse EXCEPT !.temperature = greenhouse.temperature + Trunc(lightHeatIncrease, 60)]

\* [greenhouse, ventStart, threw]
updateGreenhouseEnvironment(greenhouse, id, envData, ventStart, minute) ==
    LET lightIntensity == shadedLightIntensity(greenhouse.shading)
        lightHeatIncrease == lightIntensity * LIGHT_HEAT_EFFECT
        g0 == [greenhouse EXCEPT !.lightIntensity = lightIntensity]
        v1 == IF greenhouse.fan
              THEN (IF ~MapHas(ventStart, id) THEN MapSet(ventStart, id, minute)
                    ELSE ventStart)
              ELSE MapDelete(ventStart, id)
        g1 == IF greenhouse.fan
              THEN ventilate(g0, envData, minute - v1[id])
              ELSE heatFromLight(g0, lightHeatIncrease)
        g2 == IF g1.humidity > MAX_HUMIDITY THEN [g1 EXCEPT !.humidity = MAX_HUMIDITY]
              ELSE g1
        g3 == [g2 EXCEPT !.temperature = Max(0, Min(70 * Scale, g2.temperature)),
                         !.humidity = Max(0, Min(100 * Scale, g2.humidity))]
    IN  IF greenhouse.fan /\ readsMissingRecord(minute - v1[id], envData)
        THEN [greenhouse |-> g0, ventStart |-> v1, threw |-> TRUE]
        ELSE [greenhouse |-> g3, ventStart |-> v1, threw |-> FALSE]

-----------------------------------------------------------------------------
(* One tick (SensorSimulator.ts 56-76) *)

\* greenhouse.tables.forEach, from table j on: [tables, overFert, log]
RECURSIVE updateTables(_, _, _, _, _, _, _)
updateTables(j, tables, house, g, overFert, day, log) ==
    IF j > NumTables THEN [tables |-> tables, overFert |-> overFert, log |-> log]
    ELSE LET u == updateTableData(tables[j], house, <<g, j>>, overFert, day)
         IN  updateTables(j + 1, [tables EXCEPT ![j] = u.table], house, g, u.overFert,
                          day, [log EXCEPT ![<<g, j>>] = u.log])

\* simulateFrom as if the tables of a greenhouse were updated first, on the
\* environment of the tick before, and the environment after them
RECURSIVE simulateFromTablesFirst(_, _, _, _, _, _, _, _)
simulateFromTablesFirst(i, ghs, ventStart, overFert, envData, day, minute, log) ==
    IF i > NumGreenhouses
    THEN [greenhouses |-> ghs, ventStart |-> ventStart, overFert |-> overFert, log |-> log,
          threw |-> FALSE]
    ELSE LET t == updateTables(1, ghs[i].tables, ghs[i], i, overFert, day, log)
             e == updateGreenhouseEnvironment(ghs[i], i, envData, ventStart, minute)
             house == [e.greenhouse EXCEPT !.tables = t.tables]
         IN  simulateFromTablesFirst(i + 1, [ghs EXCEPT ![i] = house], e.ventStart,
                                     t.overFert, envData, day, minute, t.log)

\* greenhouses.forEach, from greenhouse i on: [greenhouses, ventStart, overFert, log,
\* threw]; an exception of updateGreenhouseEnvironment leaves the loop at once
RECURSIVE simulateFrom(_, _, _, _, _, _, _, _)
simulateFrom(i, ghs, ventStart, overFert, envData, day, minute, log) ==
    IF i > NumGreenhouses
    THEN [greenhouses |-> ghs, ventStart |-> ventStart, overFert |-> overFert, log |-> log,
          threw |-> FALSE]
    ELSE LET e == updateGreenhouseEnvironment(ghs[i], i, envData, ventStart, minute)
             t == updateTables(1, e.greenhouse.tables, e.greenhouse, i, overFert, day, log)
             house == [e.greenhouse EXCEPT !.tables = t.tables]
         IN  IF e.threw
             THEN [greenhouses |-> [ghs EXCEPT ![i] = e.greenhouse],
                   ventStart |-> e.ventStart, overFert |-> overFert, log |-> log,
                   threw |-> TRUE]
             ELSE simulateFrom(i + 1, [ghs EXCEPT ![i] = house], e.ventStart, t.overFert,
                               envData, day, minute, t.log)

\* the whole of simulateAllGreenhouses but the clock (lines 58-68)
simulateAllGreenhouses ==
    simulateFrom(1, greenhouses, ventilationStartTime, overFertilizerTime,
                 getCurrentEnvironmentData(environmentData, currentDay),
                 currentDay, minuteOfTheDay, [k \in TableKeys |-> NoLog])

\* advanceClock with the day turning one minute late
advanceClockLate(minute, day) ==
    IF minute + 1 > 1440 THEN [minute |-> 0, day |-> day + 1]
    ELSE [minute |-> minute + 1, day |-> day]

\* lines 70-75: [minute, day]
advanceClock(minute, day) ==
    IF minute + 1 >= 1440 THEN [minute |-> 0, day |-> day + 1]
    ELSE [minute |-> minute + 1, day |-> day]

-----------------------------------------------------------------------------
(* Construction (GreenhouseManager.ts 18-20, 29-83) *)

NewTable(aDay) ==
    [temperature |-> 20 * Scale, plantSize |-> 2 * Scale, plantCount |-> 480,
     soilMoisture |-> 80 * Scale, soilFertility |-> 100 * Scale, artLight |-> 0,
     water |-> FALSE, fertilizer |-> FALSE, plantedDate |-> aDay]

NewGreenhouse(aDay) ==
    [lightIntensity |-> 500, temperature |-> 20 * Scale, humidity |-> 60 * Scale,
     fan |-> FALSE, shading |-> 0, tables |-> [j \in TableIds |-> NewTable(aDay)]]

initializeGreenhouses(aDay) == [i \in GreenhouseIds |-> NewGreenhouse(aDay)]

\* the daily records the loader hands over: tavg in thousandths of a degree
EnvironmentDatasets == { <<8300>>, <<-12500, 41000>>, <<90000, -60000>> }

\* Positions of the lane.  The host runs one callback at a time, to its end or to
\* its next await; "exited" is the process gone after an unhandled rejection.
Idle == [at |-> "idle", g |-> 0, t |-> 0, envData |-> <<>>, begin |-> <<>>, log |-> <<>>]
Exited == [Idle EXCEPT !.at = "exited"]

\* tickYields as if the inner loop awaited each updateTableData
tickYieldsAtTables(at) == at = "table"

\* whether the tick hands the lane over at this position: simulateAllGreenhouses and
\* updateTableData are declared async, but neither contains an await
tickYields(at) == FALSE

\* the host may start another callback (timer firing, boundary call, reader)
CanRun == lane.at = "idle" \/ (lane.at # "exited" /\ tickYields(lane.at))

Call(op, gh, table, state, value, ok) ==
    [op |-> op, gh |-> gh, table |-> table, state |-> state, value |-> value, ok |-> ok]

\* the state initializeManager leaves
Init ==
    /\ environmentData \in EnvironmentDatasets
    /\ greenhouses = initializeGreenhouses(InitialDay)
    /\ ventilationStartTime = EmptyMap
    /\ overFertilizerTime = EmptyMap
    /\ currentDay = InitialDay
    /\ minuteOfTheDay = 0
    /\ timeStep = baseTimeStep
    /\ simulationSpeed = 1 * Scale
    /\ simulationInterval = 1
    /\ activeTimers = MapSet(EmptyMap, 1, baseTimeStep)
    /\ dataSaveInterval = "active"
    /\ lane = Idle
    /\ lastCall = Call("initializeManager", 0, 0, FALSE, 0, TRUE)
    /\ tickLog = [k \in TableKeys |-> NoLog]
    /\ callCount = 0
    /\ tickCount = 0

-----------------------------------------------------------------------------
(* The tick timer fires (GreenhouseManager.ts 80-82) *)

\* the number of consecutive over-fertilization checks (line 137) that found the
\* table above 100, this tick's included; a tick that returns before the check
\* (dead table, heat death) leaves it as it was
aboveStreakAfter(streak, path, soilFertility) ==
    IF path \in {"overfert", "full"}
    THEN (IF soilFertility > 100 * Scale THEN streak + 1 ELSE 0)
    ELSE streak

\* The callback runs simulateAllGreenhouses without await or catch.  An exception
\* inside it leaves what was written so far, skips the clock, and rejects a promise
\* nobody handles: the host then goes on, or ends the process (its default since
\* Node 15).
timerFires ==
    /\ lane.at = "idle"
    /\ \E h \in DOMAIN activeTimers :
         \E r \in {simulateAllGreenhouses}, c \in {advanceClock(minuteOfTheDay, currentDay)} :
             /\ greenhouses' = r.greenhouses
             /\ ventilationStartTime' = r.ventStart
             /\ overFertilizerTime' = r.overFert
             /\ tickLog' = [k \in TableKeys |->
                    [r.log[k] EXCEPT !.aboveStreak =
                        aboveStreakAfter(tickLog[k].aboveStreak, r.log[k].path,
                                         greenhouses[k[1]].tables[k[2]].soilFertility)]]
             /\ minuteOfTheDay' = (IF r.threw THEN minuteOfTheDay ELSE c.minute)
             /\ currentDay' = (IF r.threw THEN currentDay ELSE c.day)
             /\ lane' \in (IF r.threw THEN {Idle, Exited} ELSE {Idle})
             /\ lastCall' = Call("tick", 0, 0, FALSE, 0, ~r.threw)
    /\ tickCount' = tickCount + 1
    /\ UNCHANGED <<environmentData, simulationInterval, activeTimers, dataSaveInterval,
                   timeStep, simulationSpeed, callCount>>

Tick == tickCount < MaxTicks /\ timerFires

-----------------------------------------------------------------------------
(* Boundary calls (GreenhouseManager.ts 115-210) *)

\* ids the boundary may pass: the known ones and one unknown
GreenhouseArgs == GreenhouseIds \cup {NumGreenhouses + 1}
TableArgs == TableIds \cup {NumTables + 1}
ShadingArgs == {-1, 0, 50000, 100000, 100001}      \* thousandths of a percent
LumenArgs == {-1, 0, 600, 2000, 2001}
SpeedArgs == {-1000, 0, 500, 3000, 10000, 1000000, 1000001}   \* thousandths

\* getTable: the table, or "undefined"
HasTable(greenhouseId, tableId) ==
    greenhouseId \in DOMAIN greenhouses /\ tableId \in DOMAIN greenhouses[greenhouseId].tables

Called(call) ==
    /\ CanRun
    /\ callCount' = callCount + 1
    /\ lastCall' = call
    /\ UNCHANGED <<lane, tickLog, tickCount>>

setTableWatering(greenhouseId, tableId, state) ==
    /\ IF HasTable(greenhouseId, tableId)
       THEN /\ greenhouses' = [greenhouses EXCEPT ![greenhouseId].tables[tableId].water = state]
            /\ Called(Call("setTableWatering", greenhouseId, tableId, state, 0, TRUE))
       ELSE /\ UNCHANGED greenhouses
            /\ Called(Call("setTableWatering", greenhouseId, tableId, state, 0, FALSE))
    /\ UNCHANGED <<ventilationStartTime, overFertilizerTime, currentDay, minuteOfTheDay,
                   environmentData, simulationInterval, activeTimers, dataSaveInterval,
                   timeStep, simulationSpeed>>

setTableFertilizer(greenhouseId, tableId, state) ==
    /\ IF HasTable(greenhouseId, tableId)
       THEN /\ greenhouses' = [greenhouses EXCEPT
                                  ![greenhouseId].tables[tableId].fertilizer = state]
            /\ Called(Call("setTableFertilizer", greenhouseId, tableId, state, 0, TRUE))
       ELSE /\ UNCHANGED greenhouses
            /\ Called(Call("setTableFertilizer", greenhouseId, tableId, state, 0, FALSE))
    /\ UNCHANGED <<ventilationStartTime, overFertilizerTime, currentDay, minuteOfTheDay,
                   environmentData, simulationInterval, activeTimers, dataSaveInterval,
                   timeStep, simulationSpeed>>

setGreenhouseFan(greenhouseId, state) ==
    /\ IF greenhouseId \in DOMAIN greenhouses
       THEN /\ greenhouses' = [greenhouses EXCEPT ![greenhouseId].fan = state]
            /\ Called(Call("setGreenhouseFan", greenhouseId, 0, state, 0, TRUE))
       ELSE /\ UNCHANGED greenhouses
            /\ Called(Call("setGreenhouseFan", greenhouseId, 0, state, 0, FALSE))
    /\ UNCHANGED <<ventilationStartTime, overFertilizerTime, currentDay, minuteOfTheDay,
                   environmentData, simulationInterval, activeTimers, dataSaveInterval,
                   timeStep, simulationSpeed>>

\* setGreenhouseShading without the range check of line 164
setGreenhouseShadingUnchecked(greenhouseId, percentage) ==
    /\ IF greenhouseId \in DOMAIN greenhouses
       THEN /\ greenhouses' = [greenhouses EXCEPT ![greenhouseId].shading = percentage]
            /\ Called(Call("setGreenhouseShading", greenhouseId, 0, FALSE, percentage, TRUE))
       ELSE /\ UNCHANGED greenhouses
            /\ Called(Call("setGreenhouseShading", greenhouseId, 0, FALSE, percentage, FALSE))
    /\ UNCHANGED <<ventilationStartTime, overFertilizerTime, currentDay, minuteOfTheDay,
                   environmentData, simulationInterval, activeTimers, dataSaveInterval,
                   timeStep, simulationSpeed>>

\* lines 162-170
setGreenhouseShading(greenhouseId, percentage) ==
    /\ IF greenhouseId \in DOMAIN greenhouses /\ percentage >= 0
          /\ percentage <= 100 * Scale
       THEN /\ greenhouses' = [greenhouses EXCEPT ![greenhouseId].shading = percentage]
            /\ Called(Call("setGreenhouseShading", greenhouseId, 0, FALSE, percentage, TRUE))
       ELSE /\ UNCHANGED greenhouses
            /\ Called(Call("setGreenhouseShading", greenhouseId, 0, FALSE, percentage, FALSE))
    /\ UNCHANGED <<ventilationStartTime, overFertilizerTime, currentDay, minuteOfTheDay,
                   environmentData, simulationInterval, activeTimers, dataSaveInterval,
                   timeStep, simulationSpeed>>

\* setTableLight that writes the lumens before it checks them
setTableLightWriteFirst(greenhouseId, tableId, lumens) ==
    /\ IF HasTable(greenhouseId, tableId)
       THEN /\ greenhouses' = [greenhouses EXCEPT
                                  ![greenhouseId].tables[tableId].artLight = lumens]
            /\ Called(Call("setTableLight", greenhouseId, tableId, FALSE, lumens,
                           lumens >= 0 /\ lumens <= 2000))
       ELSE /\ UNCHANGED greenhouses
            /\ Called(Call("setTableLight", greenhouseId, tableId, FALSE, lumens, FALSE))
    /\ UNCHANGED <<ventilationStartTime, overFertilizerTime, currentDay, minuteOfTheDay,
                   environmentData, simulationInterval, activeTimers, dataSaveInterval,
                   timeStep, simulationSpeed>>

\* lines 172-180
setTableLight(greenhouseId, tableId, lumens) ==
    /\ IF HasTable(greenhouseId, tableId) /\ lumens >= 0 /\ lumens <= 2000
       THEN /\ greenhouses' = [greenhouses EXCEPT
                                  ![greenhouseId].tables[tableId].artLight = lumens]
            /\ Called(Call("setTableLight", greenhouseId, tableId, FALSE, lumens, TRUE))
       ELSE /\ UNCHANGED greenhouses
            /\ Called(Call("setTableLight", greenhouseId, tableId, FALSE, lumens, FALSE))
    /\ UNCHANGED <<ventilationStartTime, overFertilizerTime, currentDay, minuteOfTheDay,
                   environmentData, simulationInterval, activeTimers, dataSaveInterval,
                   timeStep, simulationSpeed>>

\* clearInterval as if the old timer were left running
clearIntervalForgotten(timers, handle) == timers

\* clearInterval(handle): a handle of no live timer is ignored
clearInterval(timers, handle) == MapDelete(timers, handle)

\* setInterval hands out a handle that no live timer has
NewHandle(timers) == CHOOSE h \in 1..(Cardinality(DOMAIN timers) + 1) : h \notin DOMAIN timers

\* startSimulation, lines 76-83: [simulationInterval, activeTimers]
startSimulation(timers, step) ==
    LET h == NewHandle(timers)
    IN  [simulationInterval |-> h, activeTimers |-> MapSet(timers, h, step)]

\* tickInterval without the floor of 1 ms
tickIntervalNoFloor(speed) == Trunc(baseTimeStep * Scale, speed)

\* line 198: Math.max(1, this.baseTimeStep / speed)
tickInterval(speed) == Max(1 * Scale, Trunc(baseTimeStep * Scale, speed))

setSimulationSpeed(speed) ==
    /\ IF speed > 0 /\ speed <= 1000 * Scale
       THEN LET step == tickInterval(speed)
            IN  /\ simulationSpeed' = speed
                /\ timeStep' = step
                /\ IF simulationInterval # 0
                   THEN LET s == startSimulation(clearInterval(activeTimers,
                                                               simulationInterval), step)
                        IN  /\ simulationInterval' = s.simulationInterval
                            /\ activeTimers' = s.activeTimers
                   ELSE UNCHANGED <<simulationInterval, activeTimers>>
                /\ Called(Call("setSimulationSpeed", 0, 0, FALSE, speed, TRUE))
       ELSE /\ UNCHANGED <<simulationSpeed, timeStep, simulationInterval, activeTimers>>
            /\ Called(Call("setSimulationSpeed", 0, 0, FALSE, speed, FALSE))
    /\ UNCHANGED <<greenhouses, ventilationStartTime, overFertilizerTime, currentDay,
                   minuteOfTheDay, environmentData, dataSaveInterval>>

\* stop, lines 120-129: the handles are cleared but stay in the fields
stop ==
    /\ activeTimers' = IF simulationInterval # 0
                       THEN clearInterval(activeTimers, simulationInterval)
                       ELSE activeTimers
    /\ dataSaveInterval' = IF dataSaveInterval # "null" THEN "cleared" ELSE dataSaveInterval
    /\ Called(Call("stop", 0, 0, FALSE, 0, TRUE))
    /\ UNCHANGED <<greenhouses, ventilationStartTime, overFertilizerTime, currentDay,
                   minuteOfTheDay, environmentData, simulationInterval, timeStep,
                   simulationSpeed>>

\* the operator has calls left in this run
MayCall == callCount < MaxCalls

Next ==
    \/ Tick
    \/ \E g \in GreenhouseArgs, t \in TableArgs, b \in BOOLEAN :
           MayCall /\ setTableWatering(g, t, b)
    \/ \E g \in GreenhouseArgs, t \in TableArgs, b \in BOOLEAN :
           MayCall /\ setTableFertilizer(g, t, b)
    \/ \E g \in GreenhouseArgs, b \in BOOLEAN : MayCall /\ setGreenhouseFan(g, b)
    \/ \E g \in GreenhouseArgs, p \in ShadingArgs : MayCall /\ setGreenhouseShading(g, p)
    \/ \E g \in GreenhouseArgs, t \in TableArgs, l \in LumenArgs :
           MayCall /\ setTableLight(g, t, l)
    \/ \E s \in SpeedArgs : MayCall /\ setSimulationSpeed(s)
    \/ MayCall /\ stop

Spec == Init /\ [][Next]_vars

-----------------------------------------------------------------------------
(* The speed controller: ticks of the constructed manager with a sequence   *)
(* of setSimulationSpeed and stop calls.                                    *)

MaxSpeedCalls == 2

SpeedCall == callCount < MaxSpeedCalls /\ \E s \in SpeedArgs : setSimulationSpeed(s)

StopCall == callCount < MaxSpeedCalls /\ stop

NextSpeed == Tick \/ SpeedCall \/ StopCall

SpecSpeed == Init /\ [][NextSpeed]_vars

-----------------------------------------------------------------------------
(* The engine run from any state of the data model.                        *)
(* SpecEngine starts the tick from drawn greenhouse and table states: the  *)
(* constructed one, states later ticks and setters lead to, and the inputs *)
(* of the scenarios of the specification's section 8 that lie within the  *)
(* data model (a 31 cm table of 480 plants, a table of fewer than 24).     *)
(* Every drawn state keeps plantCount = 0 exactly when plantSize = 0, as   *)
(* every tick does.                                                        *)

\* the table and greenhouse the drawn state is given to; the others are as constructed
SubjectGreenhouse == NumGreenhouses
SubjectTable == NumTables
SubjectKey == <<SubjectGreenhouse, SubjectTable>>

PlantGrid ==
    {[plantSize |-> 0, plantCount |-> 0]}
    \cup [plantSize : {2000, 29900, 31000}, plantCount : {1, 23, 24, 100, 101, 480}]

\* table-focused draws: the greenhouse is closed, unshaded, at one of four temperatures
InitTableCases ==
    \E temp \in {4000, 22000, 59900, 60000},
       plant \in PlantGrid,
       moisture \in {5000, 40000, 60000, 100000},
       fertility \in {0, 100000, 101000, 150000},
       water \in BOOLEAN, fertilizer \in BOOLEAN,
       over \in {0, 8, 9},
       minute \in {0, 1439} :
         /\ greenhouses = [initializeGreenhouses(InitialDay) EXCEPT
                ![SubjectGreenhouse].temperature = temp,
                ![SubjectGreenhouse].tables[SubjectTable] =
                    [temperature |-> temp, plantSize |-> plant.plantSize,
                     plantCount |-> plant.plantCount, soilMoisture |-> moisture,
                     soilFertility |-> fertility, artLight |-> 0, water |-> water,
                     fertilizer |-> fertilizer, plantedDate |-> InitialDay]]
         /\ overFertilizerTime = IF over = 0 THEN EmptyMap
                                 ELSE MapSet(EmptyMap, SubjectKey, over)
         /\ ventilationStartTime = EmptyMap
         /\ minuteOfTheDay = minute
         /\ currentDay = InitialDay + 1
         /\ environmentData = <<8300>>

\* environment-focused draws: the tables are as constructed
InitEnvironmentCases ==
    \E temp \in {0, 20000, 69950, 70000},
       humidity \in {0, 60000, 85000, 100000},
       fan \in BOOLEAN,
       shading \in {0, 50000, 100000},
       minute \in {0, 40, 1439},
       start \in {-1, 0, 10, 1439},
       env \in EnvironmentDatasets :
         /\ greenhouses = [initializeGreenhouses(InitialDay) EXCEPT
                ![SubjectGreenhouse].temperature = temp,
                ![SubjectGreenhouse].humidity = humidity,
                ![SubjectGreenhouse].fan = fan,
                ![SubjectGreenhouse].shading = shading]
         /\ ventilationStartTime = IF start < 0 THEN EmptyMap
                                   ELSE MapSet(EmptyMap, SubjectGreenhouse, start)
         /\ overFertilizerTime = EmptyMap
         /\ minuteOfTheDay = minute
         /\ currentDay = InitialDay
         /\ environmentData = env

\* the manager's fields as constructed, and nothing observed yet
InitManager ==
    /\ timeStep = baseTimeStep
    /\ simulationSpeed = 1 * Scale
    /\ simulationInterval = 1
    /\ activeTimers = MapSet(EmptyMap, 1, baseTimeStep)
    /\ dataSaveInterval = "active"
    /\ lane = Idle
    /\ lastCall = Call("initializeManager", 0, 0, FALSE, 0, TRUE)
    /\ tickLog = [k \in TableKeys |-> NoLog]
    /\ callCount = 0
    /\ tickCount = 0

InitEngine == (InitTableCases \/ InitEnvironmentCases) /\ InitManager

EngineTick == tickCount < MaxEngineTicks /\ timerFires

NextEngine == EngineTick

SpecEngine == InitEngine /\ [][NextEngine]_vars

-----------------------------------------------------------------------------
(* The drought scenario of section 8: updateTableData given a table of any *)
(* population up to 1000, more than a table holds ("hypothetical unclamped *)
(* input"), dry or not.                                                    *)

MaxPlantsDrawn == 1000

InitDroughtCases ==
    \E count \in 1..MaxPlantsDrawn,
       moisture \in {0, 5000, 10000, 10020, 40000} :
         /\ greenhouses = [initializeGreenhouses(InitialDay) EXCEPT
                ![SubjectGreenhouse].tables[SubjectTable].plantCount = count,
                ![SubjectGreenhouse].tables[SubjectTable].soilMoisture = moisture]
         /\ overFertilizerTime = EmptyMap
         /\ ventilationStartTime = EmptyMap
         /\ minuteOfTheDay = 0
         /\ currentDay = InitialDay
         /\ environmentData = <<8300>>

InitDrought == InitDroughtCases /\ InitManager

SpecDrought == InitDrought /\ [][NextEngine]_vars

-----------------------------------------------------------------------------
(* The over-fertilization scenario of section 8: a dozen ticks of a table   *)
(* that starts at or above 100% fertility with no count against it, its     *)
(* watering and fertilizer valves as drawn and switched by the operator.    *)

MaxFertilizerTicks == 12

InitFertilizerCases ==
    \E fertility \in {100000, 101000, 104000, 110000, 150000},
       water \in BOOLEAN, fertilizer \in BOOLEAN :
         /\ greenhouses = [initializeGreenhouses(InitialDay) EXCEPT
                ![SubjectGreenhouse].tables[SubjectTable].soilFertility = fertility,
                ![SubjectGreenhouse].tables[SubjectTable].water = water,
                ![SubjectGreenhouse].tables[SubjectTable].fertilizer = fertilizer]
         /\ overFertilizerTime = EmptyMap
         /\ ventilationStartTime = EmptyMap
         /\ minuteOfTheDay = 0
         /\ currentDay = InitialDay
         /\ environmentData = <<8300>>

InitOverFertilizer == InitFertilizerCases /\ InitManager

FertilizerTick == tickCount < MaxFertilizerTicks /\ timerFires

NextOverFertilizer ==
    \/ FertilizerTick
    \/ \E g \in GreenhouseArgs, t \in TableArgs, b \in BOOLEAN :
           MayCall /\ setTableWatering(g, t, b)
    \/ \E g \in GreenhouseArgs, t \in TableArgs, b \in BOOLEAN :
           MayCall /\ setTableFertilizer(g, t, b)

SpecOverFertilizer == InitOverFertilizer /\ [][NextOverFertilizer]_vars

-----------------------------------------------------------------------------
(* Properties *)

Table(k) == greenhouses[k[1]].tables[k[2]]

\* C1: after every tick every table has 0 <= plantCount <= 480, plantSize >= 0,
\* 0 <= soilMoisture <= 100 and 0 <= soilFertility <= 150.
C1_TableBounds ==
    \A k \in TableKeys :
        /\ Table(k).plantCount >= 0 /\ Table(k).plantCount <= 480
        /\ Table(k).plantSize >= 0
        /\ Table(k).soilMoisture >= 0 /\ Table(k).soilMoisture <= 100 * Scale
        /\ Table(k).soilFertility >= 0 /\ Table(k).soilFertility <= 150 * Scale

\* a watered, fertilized table at the caps, with plants pushed out by crowding
C1_Witness ==
    /\ tickCount >= 1
    /\ tickLog[SubjectKey].path = "full"
    /\ tickLog[SubjectKey].plantsToRemove > 0
    /\ Table(SubjectKey).water /\ Table(SubjectKey).fertilizer
    /\ Table(SubjectKey).soilMoisture = 100 * Scale
    /\ Table(SubjectKey).soilFertility = 149 * Scale

\* C2: after every tick every greenhouse has 0 <= temperature <= 70 and
\* 0 <= humidity <= 85, whatever the fan, the shading, the outside temperature and
\* the ventilation time (negative after midnight) are.
C2_EnvironmentBounds ==
    tickCount >= 1 =>
        \A g \in GreenhouseIds :
            /\ greenhouses[g].temperature >= 0 /\ greenhouses[g].temperature <= 70 * Scale
            /\ greenhouses[g].humidity >= 0 /\ greenhouses[g].humidity <= MAX_HUMIDITY

\* one tick after midnight with the fan on since 23:59 (ventilation time -1439) that
\* drove a dry greenhouse's humidity into the ceiling
C2_Witness ==
    /\ tickCount = 1
    /\ minuteOfTheDay = 1
    /\ greenhouses[SubjectGreenhouse].fan
    /\ MapHas(ventilationStartTime, SubjectGreenhouse)
    /\ ventilationStartTime[SubjectGreenhouse] = 1439
    /\ greenhouses[SubjectGreenhouse].humidity = MAX_HUMIDITY

-----------------------------------------------------------------------------
(* Harvest (SensorSimulator.ts 215-218, 300-312) *)

TableNext(k) == greenhouses'[k[1]].tables[k[2]]

\* what a harvesting tick does to table k: floor(95%) of the population that reached
\* the harvest step is removed; the table is replanted when fewer than 24 are left,
\* and otherwise keeps the remainder (less what crowding pushes out) at its size
HarvestStep(k) ==
    LET log == tickLog'[k]
        n == log.plantsBefore - log.deathCount
        remainder == n - log.harvestCount
    IN  log.harvested =>
            /\ log.path = "full" /\ ~log.replanted
            /\ log.harvestCount * 20 <= n * 19 /\ (log.harvestCount + 1) * 20 > n * 19
            /\ log.harvestReplanted <=> remainder < 24
            /\ log.harvestReplanted =>
                   /\ TableNext(k).plantCount = 480
                   /\ TableNext(k).plantSize = 2 * Scale
                   /\ TableNext(k).plantedDate = currentDay
            /\ ~log.harvestReplanted =>
                   /\ TableNext(k).plantSize >= 30 * Scale
                   /\ TableNext(k).plantCount + log.plantsToRemove = remainder
                   /\ TableNext(k).plantedDate = Table(k).plantedDate

\* the table of the harvest scenario at the start of a tick that gets to the harvest
HarvestScenario(k) ==
    /\ Table(k).plantSize = 31 * Scale
    /\ Table(k).soilMoisture = 40 * Scale
    /\ Table(k).plantCount = 480
    /\ tickLog'[k].path = "full"

\* C3: a tick that harvests a table removes floor(95%) of its population and replants
\* it in the same tick when fewer than 24 plants are left; the table with plantSize 31,
\* soilMoisture 40 and plantCount 480 has 456 harvested and 24 left, which is not
\* below 24, so it ends the tick with 24 plants of at least 31 cm, not replanted.
C3_Harvest ==
    [][\A k \in TableKeys :
          /\ HarvestStep(k)
          /\ HarvestScenario(k) =>
                 /\ tickLog'[k].harvested
                 /\ tickLog'[k].harvestCount = 456
                 /\ ~tickLog'[k].harvestReplanted
                 /\ TableNext(k).plantCount = 24
                 /\ TableNext(k).plantSize >= 31 * Scale]_vars

\* the scenario table after its tick: 456 harvested, 24 left standing
C3_Witness ==
    /\ tickCount = 1
    /\ tickLog[SubjectKey].harvested
    /\ tickLog[SubjectKey].plantsBefore = 480
    /\ tickLog[SubjectKey].deathCount = 0
    /\ tickLog[SubjectKey].harvestCount = 456
    /\ Table(SubjectKey).plantCount = 24
    /\ Table(SubjectKey).soilMoisture < 40 * Scale

\* C3 as stated: the scenario table ends its tick replanted, 480 plants of 2 cm
C3_AsStated ==
    [][\A k \in TableKeys :
          /\ HarvestStep(k)
          /\ HarvestScenario(k) =>
                 /\ tickLog'[k].harvested
                 /\ tickLog'[k].harvestCount = 456
                 /\ TableNext(k).plantCount = 480
                 /\ TableNext(k).plantSize = 2 * Scale]_vars

-----------------------------------------------------------------------------
(* Low-population replant (SensorSimulator.ts 123-126, 207-210, 314-320) *)

\* the table is skipped by the early exit of lines 124-126
IsDead(table) == table.plantCount <= 0 \/ table.plantSize <= 0

\* the greenhouse temperature the table engine sees in this tick
SeenTemperature(g) == greenhouses'[g].temperature

\* the over-fertilization check of this tick kills table k
OverFertilizedToDeath(k) ==
    /\ Table(k).soilFertility > 100 * Scale
    /\ (IF MapHas(overFertilizerTime, k) THEN overFertilizerTime[k] ELSE 0) + 1
           >= OVER_FERTILIZER_DEATH

\* table k gets past the early exit and the two death checks of this tick
SurvivesChecks(k) ==
    /\ ~IsDead(Table(k))
    /\ SeenTemperature(k[1]) <= DEATH_TEMP
    /\ ~OverFertilizedToDeath(k)

\* C4: a table with 1 <= plantCount <= 23 (and plantSize > 0) at the start of a tick
\* that is neither too hot nor the table's over-fertilization death ends the tick with
\* plantCount 480, plantSize 2 and plantedDate the day the tick ran in; a table with
\* plantCount 0 is left as it is, and a table killed by heat or fertilizer ends at 0/0.
C4_Replant ==
    [][\A k \in TableKeys :
          Table(k).plantCount < 24 =>
              /\ SurvivesChecks(k) =>
                     /\ tickLog'[k].replanted
                     /\ TableNext(k).plantCount = 480
                     /\ TableNext(k).plantSize = 2 * Scale
                     /\ TableNext(k).plantedDate = currentDay
              /\ IsDead(Table(k)) => TableNext(k) = Table(k)
              /\ ~IsDead(Table(k)) /\ ~SurvivesChecks(k) =>
                     /\ TableNext(k).plantCount = 0
                     /\ TableNext(k).plantSize = 0
                     /\ TableNext(k).plantedDate = Table(k).plantedDate]_vars

\* a table of 1..23 plants replanted by the last tick of a day: planted on the day
\* the tick ran in, which the clock has left since
C4_Witness ==
    /\ tickCount = 1
    /\ tickLog[SubjectKey].replanted
    /\ tickLog[SubjectKey].plantsBefore \in 1..23
    /\ Table(SubjectKey).plantCount = 480
    /\ Table(SubjectKey).plantSize = 2 * Scale
    /\ Table(SubjectKey).plantedDate = InitialDay + 1
    /\ currentDay = InitialDay + 2

\* C4 as stated: every plantCount 0..23 is replanted by one tick
C4_AsStated ==
    [][\A k \in TableKeys :
          Table(k).plantCount < 24 =>
              /\ TableNext(k).plantCount = 480
              /\ TableNext(k).plantSize = 2 * Scale
              /\ TableNext(k).plantedDate = currentDay]_vars

-----------------------------------------------------------------------------
(* Heat death (SensorSimulator.ts 123-134) *)

\* the over-fertilization counter of table k is as it was
CounterUnchanged(k) ==
    /\ MapHas(overFertilizerTime', k) <=> MapHas(overFertilizerTime, k)
    /\ MapHas(overFertilizerTime, k) => overFertilizerTime'[k] = overFertilizerTime[k]

\* C5: in a tick whose greenhouse temperature, as the table engine sees it, is above
\* 60, every table of the greenhouse with plantCount > 0 ends with plantCount 0 and
\* plantSize 0 and is otherwise untouched: moisture, fertility, table temperature,
\* planted day and the over-fertilization counter are as before the tick.  (A table
\* with plants always has a positive plantSize, so the early exit does not take it.)
C5_HeatDeath ==
    /\ [](\A k \in TableKeys : Table(k).plantCount > 0 => Table(k).plantSize > 0)
    /\ [][\A k \in TableKeys :
             Table(k).plantCount > 0 /\ SeenTemperature(k[1]) > DEATH_TEMP =>
                 /\ TableNext(k) = [Table(k) EXCEPT !.plantCount = 0, !.plantSize = 0]
                 /\ CounterUnchanged(k)
                 /\ tickLog'[k].path = "heat"]_vars

\* a full, watered and fertilized table one tick short of its over-fertilization
\* death, killed by heat instead: moisture, fertility and the counter did not move
C5_Witness ==
    /\ tickCount = 1
    /\ tickLog[SubjectKey].path = "heat"
    /\ tickLog[SubjectKey].plantsBefore = 480
    /\ greenhouses[SubjectGreenhouse].temperature > DEATH_TEMP
    /\ Table(SubjectKey).plantCount = 0
    /\ Table(SubjectKey).plantSize = 0
    /\ Table(SubjectKey).water /\ Table(SubjectKey).fertilizer
    /\ Table(SubjectKey).soilMoisture = 40 * Scale
    /\ Table(SubjectKey).soilFertility = 101 * Scale
    /\ Table(SubjectKey).temperature = DEATH_TEMP
    /\ MapHas(overFertilizerTime, SubjectKey)
    /\ overFertilizerTime[SubjectKey] = 9

-----------------------------------------------------------------------------
(* Over-fertilization death (SensorSimulator.ts 136-153) *)

\* C6: a table dies of over-fertilization exactly at the 10th consecutive tick whose
\* check finds its soilFertility above 100, with plantCount 0 and plantSize 0, and not
\* earlier; a check that finds the fertility at 100 or less starts the count again from
\* zero.  The simulator's counter is that count while it is between 1 and 9, and has
\* no entry otherwise.
C6_OverFertilization ==
    \A k \in TableKeys :
        LET streak == tickLog[k].aboveStreak
        IN  /\ streak <= OVER_FERTILIZER_DEATH
            /\ tickLog[k].path = "overfert" => streak = OVER_FERTILIZER_DEATH
            /\ streak = OVER_FERTILIZER_DEATH =>
                   Table(k).plantCount = 0 /\ Table(k).plantSize = 0
            /\ tickLog[k].path = "full" => Table(k).plantCount > 0
            /\ MapHas(overFertilizerTime, k) <=> streak \in 1..(OVER_FERTILIZER_DEATH - 1)
            /\ MapHas(overFertilizerTime, k) => overFertilizerTime[k] = streak

\* the 10th tick of a table fertilized from the start: dead of over-fertilization
C6_Witness ==
    /\ tickCount = OVER_FERTILIZER_DEATH
    /\ tickLog[SubjectKey].path = "overfert"
    /\ tickLog[SubjectKey].aboveStreak = OVER_FERTILIZER_DEATH
    /\ tickLog[SubjectKey].plantsBefore > 0
    /\ Table(SubjectKey).plantCount = 0
    /\ Table(SubjectKey).plantSize = 0
    /\ ~MapHas(overFertilizerTime, SubjectKey)

-----------------------------------------------------------------------------
(* Drought death (SensorSimulator.ts 198-205) *)

\* C7: in a tick that takes a live table to the drought step with its soil moisture,
\* as the watering/evaporation step left it, below 10, exactly ceil(1% of plantCount)
\* plants die there (10 of 1000, at least 1 of any positive count); with the moisture
\* at 10 or more none do.  What is left is the table's population unless the tick goes
\* on to replant or harvest it, less what crowding pushes out.
C7_Drought ==
    \A k \in TableKeys :
        LET log == tickLog[k]
            n == log.plantsBefore
        IN  log.path = "full" =>
                /\ n > 0
                /\ Table(k).soilMoisture < 10 * Scale =>
                       /\ log.deathCount >= 1
                       /\ log.deathCount * 100 >= n
                       /\ (log.deathCount - 1) * 100 < n
                       /\ n = 1000 => log.deathCount = 10
                /\ Table(k).soilMoisture >= 10 * Scale => log.deathCount = 0
                /\ ~log.replanted /\ ~log.harvested =>
                       Table(k).plantCount + log.plantsToRemove = n - log.deathCount

\* the dry table of 1000 plants after its tick: 10 died, 990 stand
C7_Witness ==
    /\ tickCount = 1
    /\ tickLog[SubjectKey].path = "full"
    /\ tickLog[SubjectKey].plantsBefore = 1000
    /\ tickLog[SubjectKey].deathCount = 10
    /\ Table(SubjectKey).soilMoisture < 5 * Scale
    /\ Table(SubjectKey).plantCount = 990

-----------------------------------------------------------------------------
(* Speed control (GreenhouseManager.ts 195-210) *)

\* this step is a call of op
IsCall(op) == callCount' = callCount + 1 /\ lastCall'.op = op

\* the speed is in (0, 1000], timeStep is max(1, 100 / speed) and the timer that
\* drives the ticks, when there is one, has that period
SpeedAndInterval ==
    /\ simulationSpeed > 0 /\ simulationSpeed <= 1000 * Scale
    /\ timeStep = Max(1 * Scale, (100 * Scale * Scale) \div simulationSpeed)
    /\ Cardinality(DOMAIN activeTimers) <= 1
    /\ \A h \in DOMAIN activeTimers : h = simulationInterval /\ activeTimers[h] = timeStep

\* C8: setSimulationSpeed(m) with 0 < m <= 1000 stores m, sets timeStep to
\* max(1, baseTimeStep / m) (10 ms for m = 10) and leaves the clock and every
\* greenhouse and table as they are; in every state the stored speed is in (0, 1000],
\* timeStep is max(1, 100 / speed) and the running tick timer has period timeStep.
C8_SpeedChange ==
    /\ []SpeedAndInterval
    /\ [][IsCall("setSimulationSpeed") /\ lastCall'.ok =>
             /\ lastCall'.value > 0 /\ lastCall'.value <= 1000 * Scale
             /\ simulationSpeed' = lastCall'.value
             /\ timeStep' = Max(1 * Scale, (baseTimeStep * Scale) \div lastCall'.value)
             /\ lastCall'.value = 10 * Scale => timeStep' = 10 * Scale
             /\ UNCHANGED <<currentDay, minuteOfTheDay, greenhouses, ventilationStartTime,
                            overFertilizerTime, environmentData>>]_vars

\* setSimulationSpeed(10) accepted as the second call of a run, after the clock has
\* moved: 10 ms, on a new timer
C8_Witness ==
    /\ callCount = 2
    /\ lastCall = Call("setSimulationSpeed", 0, 0, FALSE, 10 * Scale, TRUE)
    /\ simulationSpeed = 10 * Scale
    /\ timeStep = 10 * Scale
    /\ simulationInterval \in DOMAIN activeTimers
    /\ activeTimers[simulationInterval] = 10 * Scale
    /\ minuteOfTheDay >= 1

-----------------------------------------------------------------------------
(* Rejected calls (GreenhouseManager.ts 132-180, 195-210) *)

Mutators == {"setTableWatering", "setTableFertilizer", "setGreenhouseFan",
             "setGreenhouseShading", "setTableLight", "setSimulationSpeed"}

\* the arguments of a call name a greenhouse (and table) that exists, with a value
\* inside the range the mutator declares
ValidArguments(call) ==
    LET knownGreenhouse == call.gh \in 1..NumGreenhouses
        knownTable == knownGreenhouse /\ call.table \in 1..NumTables
    IN  CASE call.op \in {"setTableWatering", "setTableFertilizer"} -> knownTable
          [] call.op = "setGreenhouseFan" -> knownGreenhouse
          [] call.op = "setGreenhouseShading" ->
                 knownGreenhouse /\ call.value >= 0 /\ call.value <= 100 * Scale
          [] call.op = "setTableLight" ->
                 knownTable /\ call.value >= 0 /\ call.value <= 2000
          [] call.op = "setSimulationSpeed" ->
                 call.value > 0 /\ call.value <= 1000 * Scale
          [] OTHER -> TRUE

\* C9: a call of setTableWatering, setTableFertilizer, setGreenhouseFan,
\* setGreenhouseShading, setTableLight or setSimulationSpeed with an unknown greenhouse
\* or table id or an out-of-range value returns false (and only such a call does), and
\* a call that returns false leaves greenhouses, tables, speed, timeStep, the timers
\* and the clock as they were.
C9_RejectedCalls ==
    [][\A op \in Mutators :
          IsCall(op) =>
              /\ lastCall'.ok <=> ValidArguments(lastCall')
              /\ ~lastCall'.ok => UNCHANGED programState]_vars

\* setTableLight(2001) on a table that exists, rejected after the clock has moved
C9_Witness ==
    /\ lastCall = Call("setTableLight", 1, 1, FALSE, 2001, FALSE)
    /\ callCount = 1
    /\ tickCount >= 1
    /\ Table(<<1, 1>>).artLight = 0

-----------------------------------------------------------------------------
(* Actuator ranges (GreenhouseManager.ts 162-180) *)

\* C10: in every state, after any ticks and calls, accepted or rejected, every
\* greenhouse has 0 <= shading <= 100 and every table 0 <= artLight <= 2000.
C10_ActuatorRanges ==
    /\ \A g \in GreenhouseIds :
           greenhouses[g].shading >= 0 /\ greenhouses[g].shading <= 100 * Scale
    /\ \A k \in TableKeys : Table(k).artLight >= 0 /\ Table(k).artLight <= 2000

\* a greenhouse shaded to the full 100% by an accepted call, and a tick after it
C10_Witness ==
    /\ lastCall.op = "tick"
    /\ callCount = 1
    /\ greenhouses[1].shading = 100 * Scale
    /\ greenhouses[1].lightIntensity = 0

-----------------------------------------------------------------------------
(* The tick step by step: the statements of simulateAllGreenhouses as the  *)
(* host runs them (SensorSimulator.ts 56-76), with the boundary calls and  *)
(* the readers of GreenhouseManager.ts that the host may run when the lane *)
(* is free.                                                                *)

MaxLaneTicks == 2        \* ticks of one step-by-step run
MaxLaneCalls == 1        \* boundary calls and reads of one step-by-step run

\* line 58: the timer callback enters simulateAllGreenhouses and reads the record
LaneBegin ==
    /\ CanRun
    /\ tickCount < MaxLaneTicks
    /\ DOMAIN activeTimers # {}
    /\ lane' = [at |-> "environment", g |-> 1, t |-> 0,
                envData |-> getCurrentEnvironmentData(environmentData, currentDay),
                begin |-> [greenhouses |-> greenhouses, ventStart |-> ventilationStartTime,
                           overFert |-> overFertilizerTime, day |-> currentDay,
                           minute |-> minuteOfTheDay],
                log |-> [k \in TableKeys |-> NoLog]]
    /\ UNCHANGED <<greenhouses, ventilationStartTime, overFertilizerTime, currentDay,
                   minuteOfTheDay, environmentData, simulationInterval, activeTimers,
                   dataSaveInterval, timeStep, simulationSpeed, lastCall, tickLog,
                   callCount, tickCount>>

\* line 62: updateGreenhouseEnvironment of the greenhouse the loop is at
LaneEnvironment ==
    /\ lane.at = "environment"
    /\ \E e \in {updateGreenhouseEnvironment(greenhouses[lane.g], lane.g, lane.envData,
                                             ventilationStartTime, minuteOfTheDay)} :
           /\ greenhouses' = [greenhouses EXCEPT ![lane.g] = e.greenhouse]
           /\ ventilationStartTime' = e.ventStart
           /\ IF e.threw
              THEN /\ lane' \in {Idle, Exited}
                   /\ lastCall' = Call("tick", 0, 0, FALSE, 0, FALSE)
                   /\ tickCount' = tickCount + 1
              ELSE /\ lane' = [lane EXCEPT !.at = "table", !.t = 1]
                   /\ UNCHANGED <<lastCall, tickCount>>
    /\ UNCHANGED <<overFertilizerTime, currentDay, minuteOfTheDay, environmentData,
                   simulationInterval, activeTimers, dataSaveInterval, timeStep,
                   simulationSpeed, tickLog, callCount>>

\* the position after table t of greenhouse g: the next table, the next greenhouse,
\* or the clock of lines 70-75
afterTable(g, t) ==
    IF t < NumTables THEN [at |-> "table", g |-> g, t |-> t + 1]
    ELSE IF g < NumGreenhouses THEN [at |-> "environment", g |-> g + 1, t |-> 0]
    ELSE [at |-> "clock", g |-> 0, t |-> 0]

\* lines 65-67: updateTableData of the table the inner loop is at
LaneTable ==
    /\ lane.at = "table"
    /\ \E u \in {updateTableData(greenhouses[lane.g].tables[lane.t], greenhouses[lane.g],
                                 <<lane.g, lane.t>>, overFertilizerTime, currentDay)},
          n \in {afterTable(lane.g, lane.t)} :
           /\ greenhouses' = [greenhouses EXCEPT ![lane.g].tables[lane.t] = u.table]
           /\ overFertilizerTime' = u.overFert
           /\ lane' = [lane EXCEPT !.at = n.at, !.g = n.g, !.t = n.t,
                                   !.log[<<lane.g, lane.t>>] = u.log]
    /\ UNCHANGED <<ventilationStartTime, currentDay, minuteOfTheDay, environmentData,
                   simulationInterval, activeTimers, dataSaveInterval, timeStep,
                   simulationSpeed, lastCall, tickLog, callCount, tickCount>>

\* lines 70-75: the clock, and the callback returns
LaneClock ==
    /\ lane.at = "clock"
    /\ \E c \in {advanceClock(minuteOfTheDay, currentDay)} :
           /\ minuteOfTheDay' = c.minute
           /\ currentDay' = c.day
    /\ tickLog' = [k \in TableKeys |->
           [lane.log[k] EXCEPT !.aboveStreak =
               aboveStreakAfter(tickLog[k].aboveStreak, lane.log[k].path,
                                lane.begin.greenhouses[k[1]].tables[k[2]].soilFertility)]]
    /\ lane' = Idle
    /\ lastCall' = Call("tick", 0, 0, FALSE, 0, TRUE)
    /\ tickCount' = tickCount + 1
    /\ UNCHANGED <<greenhouses, ventilationStartTime, overFertilizerTime, environmentData,
                   simulationInterval, activeTimers, dataSaveInterval, timeStep,
                   simulationSpeed, callCount>>

\* getAllGreenhouses, lines 107-109: a reader of the registry
getAllGreenhouses ==
    /\ Called(Call("getAllGreenhouses", 0, 0, FALSE, 0, TRUE))
    /\ UNCHANGED programState

\* saveAllData, lines 94-105: the save timer reads every greenhouse and table
saveAllData ==
    /\ dataSaveInterval = "active"
    /\ Called(Call("saveAllData", 0, 0, FALSE, 0, TRUE))
    /\ UNCHANGED programState

MayLaneCall == callCount < MaxLaneCalls

NextLane ==
    \/ LaneBegin
    \/ LaneEnvironment
    \/ LaneTable
    \/ LaneClock
    \/ \E g \in GreenhouseArgs, t \in TableArgs, b \in BOOLEAN :
           MayLaneCall /\ setTableWatering(g, t, b)
    \/ \E g \in GreenhouseArgs, t \in TableArgs, b \in BOOLEAN :
           MayLaneCall /\ setTableFertilizer(g, t, b)
    \/ \E g \in GreenhouseArgs, b \in BOOLEAN : MayLaneCall /\ setGreenhouseFan(g, b)
    \/ \E g \in GreenhouseArgs, p \in ShadingArgs : MayLaneCall /\ setGreenhouseShading(g, p)
    \/ \E g \in GreenhouseArgs, t \in TableArgs, l \in LumenArgs :
           MayLaneCall /\ setTableLight(g, t, l)
    \/ \E s \in SpeedArgs : MayLaneCall /\ setSimulationSpeed(s)
    \/ MayLaneCall /\ stop
    \/ MayLaneCall /\ getAllGreenhouses
    \/ MayLaneCall /\ saveAllData

SpecLane == Init /\ [][NextLane]_vars

\* a timer callback enters simulateAllGreenhouses in this step
TickBegins == lane'.at = "environment" /\ lane'.g = 1 /\ ~(lane.at = "environment" /\ lane.g = 1)

\* the tick that began in lane.begin returns in this step
TickReturns == lane.at = "clock" /\ lane'.at = "idle"

\* C11: ticks are atomic and never overlap.  A tick begins only when no tick is in
\* progress; a mutator, a speed change or a reader runs only between ticks; and the
\* tick that returns has done, from the state it began in, the environment update of
\* every greenhouse, the growth of every table and one advance of the clock, with
\* nothing else written in between.
C11_AtomicTick ==
    [][/\ TickBegins => lane.at = "idle"
       /\ callCount' # callCount => lane.at = "idle" /\ lane'.at = "idle"
       /\ TickReturns =>
              \E r \in {simulateFrom(1, lane.begin.greenhouses, lane.begin.ventStart,
                                     lane.begin.overFert, lane.envData, lane.begin.day,
                                     lane.begin.minute, [k \in TableKeys |-> NoLog])},
                 c \in {advanceClock(lane.begin.minute, lane.begin.day)} :
                  /\ greenhouses' = r.greenhouses
                  /\ ventilationStartTime' = r.ventStart
                  /\ overFertilizerTime' = r.overFert
                  /\ minuteOfTheDay' = c.minute
                  /\ currentDay' = c.day]_vars

\* a second tick under way after a boundary call, its greenhouse already updated and
\* its tables not yet
C11_Witness ==
    /\ lane.at = "table"
    /\ lane.t = 1
    /\ tickCount >= 1
    /\ callCount >= 1
    /\ greenhouses # lane.begin.greenhouses

-----------------------------------------------------------------------------
(* Speed changes against the tick timer (GreenhouseManager.ts 76-83, 195-210) *)

\* minutes the clock has advanced since construction
SimulatedMinutes == (currentDay - InitialDay) * 1440 + minuteOfTheDay

\* C12: for every interleaving of setSimulationSpeed calls (and stop) with timer
\* firings, at most one tick timer is live at any time, the one setSimulationSpeed
\* leaves being the one it has just started; each firing advances the clock by
\* exactly one minute and nothing else moves the clock, so the clock has advanced by
\* as many minutes as the timer has fired.
C12_OneTimer ==
    /\ [](Cardinality(DOMAIN activeTimers) <= 1)
    /\ [](SimulatedMinutes = tickCount)
    /\ [][/\ tickCount' = tickCount + 1 => SimulatedMinutes' = SimulatedMinutes + 1
          /\ tickCount' = tickCount => UNCHANGED <<currentDay, minuteOfTheDay>>
          /\ IsCall("setSimulationSpeed") /\ lastCall'.ok =>
                 DOMAIN activeTimers' = {simulationInterval'}]_vars

\* the timer restarted twice, the second time at 1 ms, and firing at that period
C12_Witness ==
    /\ lastCall.op = "tick"
    /\ callCount = 2
    /\ tickCount >= 3
    /\ timeStep = 1 * Scale
    /\ DOMAIN activeTimers = {simulationInterval}
    /\ activeTimers[simulationInterval] = 1 * Scale

-----------------------------------------------------------------------------
(* The engine in operation: ticks and boundary calls from states that long *)
(* runs lead to (the end of a day, a hot greenhouse, a table without       *)
(* plants).                                                                *)

InitOperatedCases ==
    \E plants \in {<<2 * Scale, 480>>, <<0, 0>>}, temp \in {20 * Scale, 60 * Scale},
       minute \in {0, 1438, 1439} :
         /\ greenhouses = [i \in GreenhouseIds |->
                [NewGreenhouse(InitialDay) EXCEPT
                    !.temperature = temp,
                    !.tables = [j \in TableIds |->
                        [NewTable(InitialDay) EXCEPT !.plantSize = plants[1],
                                                     !.plantCount = plants[2],
                                                     !.temperature = temp]]]]
         /\ ventilationStartTime = EmptyMap
         /\ overFertilizerTime = EmptyMap
         /\ minuteOfTheDay = minute
         /\ currentDay = InitialDay
         /\ environmentData = <<8300>>

InitOperated == InitOperatedCases /\ InitManager

NextOperated ==
    \/ EngineTick
    \/ \E g \in GreenhouseArgs, t \in TableArgs, b \in BOOLEAN :
           MayCall /\ setTableWatering(g, t, b)
    \/ \E g \in GreenhouseArgs, t \in TableArgs, b \in BOOLEAN :
           MayCall /\ setTableFertilizer(g, t, b)
    \/ \E g \in GreenhouseArgs, b \in BOOLEAN : MayCall /\ setGreenhouseFan(g, b)
    \/ \E g \in GreenhouseArgs, p \in ShadingArgs : MayCall /\ setGreenhouseShading(g, p)
    \/ \E g \in GreenhouseArgs, t \in TableArgs, l \in LumenArgs :
           MayCall /\ setTableLight(g, t, l)
    \/ \E s \in SpeedArgs : MayCall /\ setSimulationSpeed(s)
    \/ MayCall /\ stop

SpecOperated == InitOperated /\ [][NextOperated]_vars

-----------------------------------------------------------------------------
(* The simulated clock (SensorSimulator.ts 70-75) *)

\* C13: 0 <= minuteOfTheDay <= 1439 in every state; a tick adds one to the minute,
\* except that the tick at 1439 sets it to 0 and adds exactly one to currentDay;
\* currentDay never decreases, and no step other than a tick changes the clock.
C13_Clock ==
    /\ [](minuteOfTheDay >= 0 /\ minuteOfTheDay <= 1439)
    /\ [][/\ currentDay' >= currentDay
          /\ IF tickCount' = tickCount + 1
             THEN IF minuteOfTheDay = 1439
                  THEN minuteOfTheDay' = 0 /\ currentDay' = currentDay + 1
                  ELSE minuteOfTheDay' = minuteOfTheDay + 1 /\ currentDay' = currentDay
             ELSE UNCHANGED <<minuteOfTheDay, currentDay>>]_vars

\* the day has turned, in a run with a boundary call, and the clock has gone on
C13_Witness ==
    /\ currentDay = InitialDay + 1
    /\ minuteOfTheDay = 1
    /\ callCount = 1
    /\ tickCount = 3

-----------------------------------------------------------------------------
(* Dead tables (SensorSimulator.ts 123-126) *)

\* C14: a dead table stays dead.  Once plantCount <= 0 or plantSize <= 0, a tick
\* leaves every field of the table as it is, and no step, tick or actuator command,
\* gives it plants again.
C14_DeadStaysDead ==
    [][\A k \in TableKeys :
          IsDead(Table(k)) =>
              /\ IsDead(TableNext(k))
              /\ TableNext(k).plantCount <= 0
              /\ tickCount' = tickCount + 1 => TableNext(k) = Table(k)]_vars

\* a table without plants in a greenhouse at 60 degrees and more (drawn so, or killed
\* by the first tick), watered or fertilized by a call, and passed over by a tick again
C14_Witness ==
    /\ IsDead(Table(SubjectKey))
    /\ Table(SubjectKey).temperature = 60 * Scale
    /\ Table(SubjectKey).water \/ Table(SubjectKey).fertilizer
    /\ lastCall.op = "tick"
    /\ tickLog[SubjectKey].path = "dead"
    /\ tickCount = 3

-----------------------------------------------------------------------------
(* The mirrored temperature (SensorSimulator.ts 120-134, 212-213) *)

\* C15: after a tick, a table that had plants before it and has plants after it
\* (replanted in the tick or not) has the temperature of its greenhouse; a table
\* that was dead before the tick, or that heat or over-fertilization killed in it,
\* keeps the temperature it had.
C15_Mirror ==
    [][\A k \in TableKeys :
          IF ~IsDead(Table(k)) /\ ~IsDead(TableNext(k))
          THEN TableNext(k).temperature = greenhouses'[k[1]].temperature
          ELSE TableNext(k).temperature = Table(k).temperature]_vars

\* a table killed by over-fertilization in the last tick, left with a temperature
\* that is not its greenhouse's
C15_Witness ==
    /\ lastCall.op = "tick"
    /\ tickLog[SubjectKey].path = "overfert"
    /\ IsDead(Table(SubjectKey))
    /\ Table(SubjectKey).temperature # greenhouses[SubjectGreenhouse].temperature

\* C15 as stated: after every tick every table, dead ones included, has the
\* temperature of its greenhouse
C15_AsStated ==
    lastCall.op = "tick" =>
        \A k \in TableKeys : Table(k).temperature = greenhouses[k[1]].temperature

-----------------------------------------------------------------------------
(* The fan switched by the operator between ticks (GreenhouseManager.ts    *)
(* 152-160, SensorSimulator.ts 86-108): a warm greenhouse in mid-morning,  *)
(* its fan off, or on since minute 0 or minute 30.                         *)

MaxFanTicks == 2         \* ticks of one run of the fan scenario
MaxFanCalls == 2         \* setGreenhouseFan calls of one run of the fan scenario

InitFanCases ==
    \E fan \in BOOLEAN, start \in {0, 30}, minute \in {40, 59}, humidity \in {60 * Scale, 80 * Scale} :
         /\ greenhouses = [i \in GreenhouseIds |->
                [NewGreenhouse(InitialDay) EXCEPT !.fan = fan,
                                                  !.temperature = 40 * Scale,
                                                  !.humidity = humidity,
                                                  !.lightIntensity = 1000,
                                                  !.tables = [j \in TableIds |->
                                                      [NewTable(InitialDay) EXCEPT
                                                          !.temperature = 40 * Scale]]]]
         /\ ventilationStartTime =
                (IF fan THEN [i \in GreenhouseIds |-> start] ELSE EmptyMap)
         /\ overFertilizerTime = EmptyMap
         /\ minuteOfTheDay = minute
         /\ currentDay = InitialDay
         /\ environmentData = <<8300>>

InitFan == InitFanCases /\ InitManager

FanTick == tickCount < MaxFanTicks /\ timerFires

FanCall ==
    /\ callCount < MaxFanCalls
    /\ \E g \in GreenhouseArgs, b \in BOOLEAN : setGreenhouseFan(g, b)

NextFan == FanTick \/ FanCall

SpecFan == InitFan /\ [][NextFan]_vars

\* C16: switching the fan off and on again resets the ventilation timer in every
\* interleaving of the two calls with ticks: when the fan of a greenhouse goes from
\* off to on, no ventilation start of before is left in force (none is recorded, for
\* the next tick to record its own, or the one recorded is the present minute), so
\* that cooling resumes 30 minutes after the fan came back on and not before.
C16_FanToggle ==
    [][\A g \in GreenhouseIds :
          (~greenhouses[g].fan /\ greenhouses'[g].fan) =>
              (MapHas(ventilationStartTime', g) =>
                   ventilationStartTime'[g] = minuteOfTheDay')]_vars

-----------------------------------------------------------------------------
(* The crowding step on its own (SensorSimulator.ts 220-230, 287-298):     *)
(* tables of any size and population, and the step applied to them again   *)
(* and again.                                                              *)

MaxCrowdingSteps == 2    \* applications of the crowding step in one run

CrowdingSizes ==
    {2 * Scale, 2001, 15 * Scale, 15100, 29900, 30 * Scale, 31 * Scale, 45 * Scale,
     67 * Scale, 67100, 74999, 75 * Scale, 100 * Scale}
CrowdingCounts == {1, 23, 24, 25, 119, 120, 121, 240, 479, 480}

InitCrowdingCases ==
    \E size \in CrowdingSizes, count \in CrowdingCounts :
         /\ greenhouses = [i \in GreenhouseIds |->
                [NewGreenhouse(InitialDay) EXCEPT
                    !.tables = [j \in TableIds |->
                        [NewTable(InitialDay) EXCEPT !.plantSize = size,
                                                     !.plantCount = count]]]]
         /\ ventilationStartTime = EmptyMap
         /\ overFertilizerTime = EmptyMap
         /\ minuteOfTheDay = 0
         /\ currentDay = InitialDay + 1
         /\ environmentData = <<8300>>

InitCrowding == InitCrowdingCases /\ InitManager

\* lines 220-230 run on every table; the log keeps the population before the first
\* pass and what this pass removed
CrowdingStep ==
    /\ callCount < MaxCrowdingSteps
    /\ greenhouses' = [i \in GreenhouseIds |->
           [greenhouses[i] EXCEPT !.tables =
               [j \in TableIds |-> crowding(greenhouses[i].tables[j]).table]]]
    /\ tickLog' = [k \in TableKeys |->
           [tickLog[k] EXCEPT
               !.path = "full",
               !.plantsBefore = (IF callCount = 0 THEN Table(k).plantCount ELSE @),
               !.plantsToRemove = crowding(Table(k)).plantsToRemove]]
    /\ callCount' = callCount + 1
    /\ lastCall' = Call("crowding", 0, 0, FALSE, 0, TRUE)
    /\ UNCHANGED <<ventilationStartTime, overFertilizerTime, currentDay, minuteOfTheDay,
                   environmentData, simulationInterval, activeTimers, dataSaveInterval,
                   timeStep, simulationSpeed, lane, tickCount>>

NextCrowding == CrowdingStep

SpecCrowding == InitCrowding /\ [][NextCrowding]_vars

\* C17: the crowding step is idempotent.  For every plantSize and plantCount,
\* plantCount := min(plantCount, capacity(plantSize)) applied twice gives what it
\* gives applied once: a second pass removes nothing and leaves the table as the
\* first pass left it.
C17_CrowdingIdempotent ==
    /\ [](\A k \in TableKeys :
             /\ crowding(crowding(Table(k)).table).table = crowding(Table(k)).table
             /\ crowding(Table(k)).table.plantCount =
                    Min(Table(k).plantCount, calculateMaxPlants(Table(k).plantSize)))
    /\ [][\A k \in TableKeys :
             callCount >= 1 =>
                 TableNext(k) = Table(k) /\ tickLog'[k].plantsToRemove = 0]_vars

\* a full table of 30 cm plants after two passes: the first pushed out 360 of the
\* 480, the second none
C17_Witness ==
    /\ callCount = 2
    /\ tickLog[SubjectKey].plantsBefore = 480
    /\ tickLog[SubjectKey].plantsToRemove = 0
    /\ Table(SubjectKey).plantSize = 30 * Scale
    /\ Table(SubjectKey).plantCount = 120

-----------------------------------------------------------------------------
(* Startup (GreenhouseManager.ts 14-37, 212-239; SensorSimulator.ts 51-54): *)
(* the manager as its constructor leaves it, initializeManager on the      *)
(* records the loader parsed from the file, an empty list among them, and  *)
(* a run of ticks and fan commands after it.                               *)

MaxStartupTicks == 32    \* ticks of one run after startup

\* what readEnvironmentData may hand over: any dataset, or none at all (an empty
\* file parses to no records; lines 212-239 check nothing)
LoadedDatasets == EnvironmentDatasets \cup {<<>>}

\* the fields as declared (GreenhouseManager.ts 14-23), before initializeManager
InitConstructed ==
    /\ environmentData = <<>>
    /\ greenhouses = <<>>
    /\ ventilationStartTime = EmptyMap
    /\ overFertilizerTime = EmptyMap
    /\ currentDay = InitialDay
    /\ minuteOfTheDay = 0
    /\ timeStep = baseTimeStep
    /\ simulationSpeed = 1 * Scale
    /\ simulationInterval = 0
    /\ activeTimers = EmptyMap
    /\ dataSaveInterval = "null"
    /\ lane = Idle
    /\ lastCall = Call("constructor", 0, 0, FALSE, 0, TRUE)
    /\ tickLog = [k \in TableKeys |-> NoLog]
    /\ callCount = 0
    /\ tickCount = 0

\* initializeManager, lines 29-37: the records are pushed as they are, the
\* greenhouses are built, and both timers are started; its two awaits are of
\* functions that do not suspend, so nothing runs in between
initializeManager(records) ==
    /\ lastCall.op = "constructor"
    /\ environmentData' = environmentData \o records
    /\ greenhouses' = initializeGreenhouses(currentDay)
    /\ \E s \in {startSimulation(activeTimers, timeStep)} :
           /\ simulationInterval' = s.simulationInterval
           /\ activeTimers' = s.activeTimers
    /\ dataSaveInterval' = "active"
    /\ lastCall' = Call("initializeManager", 0, 0, FALSE, Len(records), TRUE)
    /\ UNCHANGED <<ventilationStartTime, overFertilizerTime, currentDay, minuteOfTheDay,
                   timeStep, simulationSpeed, lane, tickLog, callCount, tickCount>>

Startup == \E records \in LoadedDatasets : initializeManager(records)

StartupTick == tickCount < MaxStartupTicks /\ timerFires

\* a fan command once the server is up
StartupFanCall == simulationInterval # 0 /\ FanCall

NextStartup == Startup \/ StartupTick \/ StartupFanCall

SpecStartup == InitConstructed /\ [][NextStartup]_vars

\* C18: an empty environment dataset is a fatal configuration error at startup:
\* with an empty dataset the engine is never initialized into a running state (no
\* tick timer is ever started) and no tick is ever executed.
C18_EmptyDatasetFatal ==
    (lastCall.op # "constructor" /\ environmentData = <<>>) =>
        /\ DOMAIN activeTimers = {}
        /\ simulationInterval = 0
        /\ tickCount = 0

\* on an empty dataset: thirty minutes simulated, and then, the fan having been on
\* for thirty minutes, the tick that throws
C18_Witness ==
    /\ environmentData = <<>>
    /\ minuteOfTheDay >= 30
    /\ lastCall.op = "tick"
    /\ ~lastCall.ok
    /\ greenhouses[1].fan

-----------------------------------------------------------------------------
(* The order of the steps of a tick (SensorSimulator.ts 56-76) *)

\* C19: inside a tick a greenhouse's environment is updated before its tables, and
\* the clock after everything else.  Every table is updated on the temperature,
\* humidity and light its greenhouse has after the tick's environment update (so a
\* temperature that rises above 60 in this tick kills the plants in this tick), and
\* on the day before the clock advances (a replanted table gets that day as its
\* plantedDate); a ventilation start recorded by the tick is the minute before the
\* clock advances.
C19_TickOrder ==
    [][tickCount' = tickCount + 1 =>
          \A k \in TableKeys :
              /\ TableNext(k) = updateTableData(Table(k), greenhouses'[k[1]], k,
                                                overFertilizerTime, currentDay).table
              /\ (~IsDead(Table(k)) /\ greenhouses[k[1]].temperature <= DEATH_TEMP
                      /\ greenhouses'[k[1]].temperature > DEATH_TEMP) =>
                     IsDead(TableNext(k)) /\ tickLog'[k].path = "heat"
              /\ (tickLog'[k].replanted \/ tickLog'[k].harvestReplanted) =>
                     TableNext(k).plantedDate = currentDay
              /\ (greenhouses[k[1]].fan /\ ~MapHas(ventilationStartTime, k[1])) =>
                     ventilationStartTime'[k[1]] = minuteOfTheDay]_vars

\* a greenhouse at exactly 60 degrees before the tick and at 60.1 after it: the
\* table, alive at 60, was killed by the same tick
C19_Witness ==
    /\ tickCount = 1
    /\ tickLog[SubjectKey].path = "heat"
    /\ greenhouses[SubjectGreenhouse].temperature = DEATH_TEMP + 100
    /\ ~greenhouses[SubjectGreenhouse].fan
    /\ Table(SubjectKey).temperature = DEATH_TEMP
    /\ IsDead(Table(SubjectKey))

-----------------------------------------------------------------------------
(* Ventilation (SensorSimulator.ts 87-103, 110-117) *)

\* lines 110-117 on a humidity and on a temperature
ClampedHumidity(h) == Max(0, Min(100 * Scale, IF h > MAX_HUMIDITY THEN MAX_HUMIDITY ELSE h))
ClampedTemperature(t) == Max(0, Min(70 * Scale, t))

\* minuteOfTheDay - ventilationStart as this tick computes it, the start being
\* recorded by the tick itself when there is none
Elapsed(g) ==
    IF MapHas(ventilationStartTime, g) THEN minuteOfTheDay - ventilationStartTime[g] ELSE 0

\* T - 0.1 * (T - tavg) and H - (H - 60) * (elapsed / 30) * 0.05
PulledTemperature(g) ==
    greenhouses[g].temperature
        - Trunc(greenhouses[g].temperature
                    - getCurrentEnvironmentData(environmentData, currentDay).tavg, 10)
PulledHumidity(g) ==
    greenhouses[g].humidity - Trunc((greenhouses[g].humidity - 60 * Scale) * Elapsed(g), 600)

-----------------------------------------------------------------------------
(* The direction of the ventilation pull (SensorSimulator.ts 92-103) *)

Abs(x) == IF x < 0 THEN -x ELSE x

\* x lies between a and b, ends included
Between(x, a, b) == Min(a, b) <= x /\ x <= Max(a, b)

\* tavg of the record of the day
OutsideTemperature == getCurrentEnvironmentData(environmentData, currentDay).tavg

-----------------------------------------------------------------------------
(* The tick of an unventilated greenhouse (SensorSimulator.ts 104-118) *)

\* C22: with the fan off, a tick clears the ventilation start of the greenhouse,
\* raises the temperature by lightIntensity * (3 / 500) / 60, lightIntensity being
\* the one the tick has just computed, up to 70 at most, and leaves the humidity as
\* it is but for the ceiling of 85%.
C22_FanOff ==
    [][tickCount' = tickCount + 1 =>
          \A g \in GreenhouseIds :
              ~greenhouses[g].fan =>
                  /\ ~MapHas(ventilationStartTime', g)
                  /\ greenhouses'[g].temperature =
                         Min(70 * Scale,
                             greenhouses[g].temperature
                                 + Trunc(greenhouses'[g].lightIntensity * LIGHT_HEAT_EFFECT, 60))
                  /\ greenhouses'[g].temperature >= greenhouses[g].temperature
                  /\ greenhouses'[g].humidity = Min(MAX_HUMIDITY, greenhouses[g].humidity)
                  /\ ~greenhouses'[g].fan]_vars

\* a half-shaded greenhouse at 20 degrees and 85% or more, its fan off, after the
\* tick of minute 40: 20.05 degrees, 85%, and no ventilation start
C22_Witness ==
    /\ tickCount = 1
    /\ minuteOfTheDay = 41
    /\ ~greenhouses[SubjectGreenhouse].fan
    /\ ~MapHas(ventilationStartTime, SubjectGreenhouse)
    /\ greenhouses[SubjectGreenhouse].lightIntensity = 500
    /\ greenhouses[SubjectGreenhouse].temperature = 20050
    /\ greenhouses[SubjectGreenhouse].humidity = 85 * Scale

-----------------------------------------------------------------------------
(* Shading and light (SensorSimulator.ts 78-84, GreenhouseManager.ts       *)
(* 162-170): the constructed manager, ticks, and shading commands, whole   *)
(* and fractional percentages among them.                                  *)

MaxShadingCalls == 2     \* setGreenhouseShading calls of one run

\* thousandths of a percent: 33.3% leaves 667 lumens, 99.94% leaves 1
FineShadingArgs == ShadingArgs \cup {33300, 99940}

ShadingCall ==
    /\ callCount < MaxShadingCalls
    /\ \E g \in GreenhouseArgs, p \in FineShadingArgs : setGreenhouseShading(g, p)

NextShading == Tick \/ ShadingCall

SpecShading == Init /\ [][NextShading]_vars

\* round(1000 * (1 - shading / 100)), shading in thousandths of a percent
ShadedLight(shading) == (1000 * Scale - 10 * shading + Scale \div 2) \div Scale

\* C23: after every tick the lightIntensity of each greenhouse is
\* round(1000 * (1 - shading / 100)) for the shading in force at that tick, hence in
\* [0, 1000]; a shading command changes the shading and not the lightIntensity,
\* which follows at the next tick.
C23_ShadedLight ==
    /\ [](\A g \in GreenhouseIds :
             /\ greenhouses[g].lightIntensity >= 0
             /\ greenhouses[g].lightIntensity <= 1000
             /\ lastCall.op = "tick" =>
                    greenhouses[g].lightIntensity = ShadedLight(greenhouses[g].shading))
    /\ [][\A g \in GreenhouseIds :
             IF tickCount' = tickCount + 1
             THEN /\ greenhouses'[g].lightIntensity = ShadedLight(greenhouses[g].shading)
                  /\ greenhouses'[g].shading = greenhouses[g].shading
             ELSE greenhouses'[g].lightIntensity = greenhouses[g].lightIntensity]_vars

\* shading set to 33.3% and then to 99.94% between two ticks: the light is still
\* the 667 lumens of the tick before
C23_Witness ==
    /\ callCount = 2
    /\ tickCount >= 1
    /\ lastCall = Call("setGreenhouseShading", 1, 0, FALSE, 99940, TRUE)
    /\ greenhouses[1].shading = 99940
    /\ greenhouses[1].lightIntensity = 667

-----------------------------------------------------------------------------
(* After the low-population replant (SensorSimulator.ts 207-230) *)

\* C24: when the low-population check (plantCount < 24 after the drought step)
\* replants a table, the remaining steps of that tick are skipped for it: the
\* temperature is not mirrored, nothing is harvested and nothing is pushed out.
C24_ReplantShortCircuits ==
    [][tickCount' = tickCount + 1 =>
          \A k \in TableKeys :
              tickLog'[k].replanted =>
                  /\ TableNext(k).temperature = Table(k).temperature
                  /\ ~tickLog'[k].harvested
                  /\ tickLog'[k].plantsToRemove = 0]_vars

\* a table replanted by the low-population check in a greenhouse that went from 22
\* to 22.1 degrees in the tick: the table is at 22.1 too
C24_Witness ==
    /\ tickCount = 1
    /\ tickLog[SubjectKey].replanted
    /\ Table(SubjectKey).plantCount = 480
    /\ Table(SubjectKey).plantSize = 2 * Scale
    /\ greenhouses[SubjectGreenhouse].temperature = 22100
    /\ Table(SubjectKey).temperature = 22100

-----------------------------------------------------------------------------
(* What a replant writes (SensorSimulator.ts 314-320) *)

\* the fertility replantTable finds: the tick's watering (lines 159-162) and decay
\* (lines 176-178) have acted on the table before either replant
FertilityAtReplant(k) ==
    LET fed == IF Table(k).water /\ Table(k).fertilizer
               THEN Min(150 * Scale, Table(k).soilFertility + 20 * Scale)
               ELSE Table(k).soilFertility
    IN  IF fed > 0 THEN Max(0, fed - 1 * Scale) ELSE fed

\* C25: a replant (by the low-population check or after a harvest) sets plantCount
\* to 480, plantSize to 2, soilFertility to min(100, soilFertility + 20), so at most
\* 100 even from above 100, and plantedDate to the current simulated day; it leaves
\* soilMoisture (as the tick's watering or evaporation made it), artLight and the
\* water and fertilizer actuators as they were.
C25_Replant ==
    [][tickCount' = tickCount + 1 =>
          \A k \in TableKeys :
              (tickLog'[k].replanted \/ tickLog'[k].harvestReplanted) =>
                  /\ TableNext(k).plantCount = 480
                  /\ TableNext(k).plantSize = 2 * Scale
                  /\ TableNext(k).soilFertility =
                         Min(100 * Scale, FertilityAtReplant(k) + 20 * Scale)
                  /\ TableNext(k).soilFertility <= 100 * Scale
                  /\ TableNext(k).plantedDate = currentDay
                  /\ TableNext(k).soilMoisture =
                         waterManagement(Table(k), greenhouses'[k[1]]).soilMoisture
                  /\ TableNext(k).artLight = Table(k).artLight
                  /\ TableNext(k).water = Table(k).water
                  /\ TableNext(k).fertilizer = Table(k).fertilizer]_vars

\* a table that was fertilized to 150 and watered, replanted after its harvest:
\* 480 plants of 2 cm, fertility 100, planted on day 101, still watered
C25_Witness ==
    /\ tickCount = 1
    /\ tickLog[SubjectKey].harvestReplanted
    /\ tickLog[SubjectKey].harvestCount = 95
    /\ Table(SubjectKey).plantCount = 480
    /\ Table(SubjectKey).plantSize = 2 * Scale
    /\ Table(SubjectKey).soilFertility = 100 * Scale
    /\ Table(SubjectKey).plantedDate = InitialDay + 1
    /\ Table(SubjectKey).soilMoisture = 43000
    /\ Table(SubjectKey).water
    /\ Table(SubjectKey).fertilizer
    /\ MapHas(overFertilizerTime, SubjectKey)

-----------------------------------------------------------------------------
(* Fertilizer and decay in one tick (SensorSimulator.ts 155-178) *)

\* the table is alive when the tick begins (the opposite of lines 123-126)
Live(k) == Table(k).plantCount > 0 /\ Table(k).plantSize > 0

\* C26: in a tick that takes a table through the whole of updateTableData without
\* replanting it, soilFertility becomes min(150, fertility + 20) only with water
\* and fertilizer both on, stays as it was otherwise (the fertilizer actuator alone
\* changes nothing), and then loses 1 point unless it is 0 (never going below 0):
\* it rises only with both actuators on.  A replant in the tick adds 20 more, up
\* to 100; a table the tick kills by heat or over-fertilisation, or finds dead,
\* keeps its fertility.
C26_Fertilizer ==
    [][tickCount' = tickCount + 1 =>
          \A k \in TableKeys :
              LET F == Table(k).soilFertility
                  fed == IF Table(k).water /\ Table(k).fertilizer
                         THEN Min(150 * Scale, F + 20 * Scale) ELSE F
                  decayed == IF fed > 0 THEN Max(0, fed - 1 * Scale) ELSE fed
                  replant == tickLog'[k].replanted \/ tickLog'[k].harvestReplanted
              IN  /\ tickLog'[k].path = "full" /\ ~replant =>
                         /\ TableNext(k).soilFertility = decayed
                         /\ TableNext(k).soilFertility > F =>
                                Table(k).water /\ Table(k).fertilizer
                         /\ ~Table(k).water => TableNext(k).soilFertility = Max(0, F - 1 * Scale)
                  /\ tickLog'[k].path = "full" /\ replant =>
                         TableNext(k).soilFertility = Min(100 * Scale, decayed + 20 * Scale)
                  /\ tickLog'[k].path # "full" => TableNext(k).soilFertility = F]_vars

\* a watered and fertilized table of 480 plants after its tick: fertility 100 + 20 - 1
C26_Witness ==
    /\ tickCount = 1
    /\ tickLog[SubjectKey].path = "full"
    /\ ~tickLog[SubjectKey].replanted
    /\ ~tickLog[SubjectKey].harvested
    /\ Table(SubjectKey).water
    /\ Table(SubjectKey).fertilizer
    /\ Table(SubjectKey).plantCount = 480
    /\ Table(SubjectKey).soilFertility = 119 * Scale
    /\ ~MapHas(overFertilizerTime, SubjectKey)

\* C26 as stated: in every tick of a table that is alive when the tick begins, the
\* fertility rises only with both actuators on and ends at the watered value less
\* the decay
C26_AsStated ==
    [][tickCount' = tickCount + 1 =>
          \A k \in TableKeys :
              Live(k) =>
                  /\ TableNext(k).soilFertility > Table(k).soilFertility =>
                         Table(k).water /\ Table(k).fertilizer
                  /\ TableNext(k).soilFertility = FertilityAtReplant(k)]_vars

-----------------------------------------------------------------------------
(* Growth (SensorSimulator.ts 180-196, 237-285).                           *)
(* SpecGrowth runs the tick on tables and greenhouses drawn across the     *)
(* state bounds at the corners of the four growth factors: moisture 0..100,*)
(* fertility 0..150, greenhouse light 0..1000 plus table light 0..2000,    *)
(* temperature 0..70.                                                      *)

InitGrowthCases ==
    \E temp \in {0, 4900, 5000, 13500, 22000, 31000, 40000, 50000, 60000, 70000},
       shading \in {0, 50000, 100000},
       artLight \in {0, 600, 2000},
       moisture \in {0, 25000, 50000, 80000, 90000, 100000},
       fertility \in {0, 30000, 60000, 100000, 125000, 150000},
       water \in BOOLEAN,
       plant \in {[plantSize |-> 2000, plantCount |-> 480],
                  [plantSize |-> 14000, plantCount |-> 23],
                  [plantSize |-> 29900, plantCount |-> 100]} :
         /\ greenhouses = [initializeGreenhouses(InitialDay) EXCEPT
                ![SubjectGreenhouse].temperature = temp,
                ![SubjectGreenhouse].shading = shading,
                ![SubjectGreenhouse].lightIntensity = shadedLightIntensity(shading),
                ![SubjectGreenhouse].tables[SubjectTable] =
                    [temperature |-> temp, plantSize |-> plant.plantSize,
                     plantCount |-> plant.plantCount, soilMoisture |-> moisture,
                     soilFertility |-> fertility, artLight |-> artLight, water |-> water,
                     fertilizer |-> FALSE, plantedDate |-> InitialDay]]
         /\ overFertilizerTime = EmptyMap
         /\ ventilationStartTime = EmptyMap
         /\ minuteOfTheDay = 0
         /\ currentDay = InitialDay + 1
         /\ environmentData = <<8300>>

InitGrowth == InitGrowthCases /\ InitManager

MaxGrowthTicks == 2

GrowthTick == tickCount < MaxGrowthTicks /\ timerFires

NextGrowth == GrowthTick

SpecGrowth == InitGrowth /\ [][NextGrowth]_vars

\* the four factors and the rate that line 187 computes for table k in this tick,
\* from the moisture and fertility that lines 157-178 have left and the greenhouse
\* as the environment step has left it
GrowthOf(k) ==
    LET house == greenhouses'[k[1]]
        moistureFactor ==
            calculateMoistureFactor(waterManagement(Table(k), house).soilMoisture)
        fertilityFactor == calculateFertilityFactor(FertilityAtReplant(k))
        lightFactor == calculateLightFactor(house.lightIntensity, Table(k).artLight)
        temperatureFactor == calculateTemperatureFactor(house.temperature)
    IN  [factors |-> {moistureFactor, fertilityFactor, lightFactor, temperatureFactor},
         growthRate |-> growthRateOf(moistureFactor, fertilityFactor, lightFactor,
                                     temperatureFactor)]

\* C27: in every tick each of the four growth factors lies in [0, 1] and the growth
\* rate in [0, 0.2]; a table that goes through the tick without a replant has grown
\* by exactly that rate; and plantSize never decreases in a tick except by a replant
\* (to 2) or a death (to 0).
C27_Growth ==
    [][tickCount' = tickCount + 1 =>
          \A k \in TableKeys :
              LET replant == tickLog'[k].replanted \/ tickLog'[k].harvestReplanted
                  died == tickLog'[k].path \in {"heat", "overfert"}
              IN  /\ \A f \in GrowthOf(k).factors : f >= 0 /\ f <= Scale
                  /\ GrowthOf(k).growthRate >= 0
                  /\ GrowthOf(k).growthRate <= BASE_GROWTH_RATE
                  /\ tickLog'[k].path = "full" /\ ~replant =>
                         TableNext(k).plantSize = Table(k).plantSize + GrowthOf(k).growthRate
                  /\ tickLog'[k].path = "dead" => TableNext(k).plantSize = Table(k).plantSize
                  /\ replant => TableNext(k).plantSize = 2 * Scale
                  /\ died => TableNext(k).plantSize = 0
                  /\ TableNext(k).plantSize < Table(k).plantSize => replant \/ died]_vars

\* a table under 600 lx of its own in a dark greenhouse at 22 degrees, moisture and
\* fertility in their optimal ranges: all four factors are 1 and it has grown by
\* 0.2 cm, from 2 to 2.2
C27_Witness ==
    /\ tickCount = 1
    /\ tickLog[SubjectKey].path = "full"
    /\ greenhouses[SubjectGreenhouse].temperature = OPTIMAL_TEMP
    /\ greenhouses[SubjectGreenhouse].lightIntensity = 0
    /\ Table(SubjectKey).artLight = 600
    /\ Table(SubjectKey).soilMoisture = 53000
    /\ Table(SubjectKey).soilFertility = 99000
    /\ Table(SubjectKey).plantSize = 2 * Scale + BASE_GROWTH_RATE

-----------------------------------------------------------------------------
(* Capacity after a tick (SensorSimulator.ts 220-230, 287-298).            *)
(* SpecCapacity runs whole ticks on tables of the sizes and populations of *)
(* SpecCrowding, dry (plants die of drought), harvestable (moisture 40) or *)
(* not (moisture 60).                                                      *)

MaxCapacityTicks == 2

InitCapacityCases ==
    \E size \in CrowdingSizes, count \in CrowdingCounts,
       moisture \in {5000, 40000, 60000} :
         /\ greenhouses = [i \in GreenhouseIds |->
                [NewGreenhouse(InitialDay) EXCEPT
                    !.tables = [j \in TableIds |->
                        [NewTable(InitialDay) EXCEPT !.plantSize = size,
                                                     !.plantCount = count,
                                                     !.soilMoisture = moisture]]]]
         /\ ventilationStartTime = EmptyMap
         /\ overFertilizerTime = EmptyMap
         /\ minuteOfTheDay = 0
         /\ currentDay = InitialDay + 1
         /\ environmentData = <<8300>>

InitCapacity == InitCapacityCases /\ InitManager

CapacityTick == tickCount < MaxCapacityTicks /\ timerFires

NextCapacity == CapacityTick

SpecCapacity == InitCapacity /\ [][NextCapacity]_vars

\* capacity(plantSize): 480 up to 2 cm, max(24, floor(480 / (plantSize / 15)^2)) above
Capacity(plantSize) ==
    IF plantSize <= 2 * Scale THEN 480 ELSE Max(24, FloorMaxPlants(plantSize))

\* C28: after every tick every table has plantCount <= capacity(plantSize); the
\* crowding step only ever lowers plantCount (what it removes is never negative, and
\* a table that is neither replanted nor harvested ends with its population less
\* the drought deaths and the removals), and when it removes plants it leaves
\* exactly the capacity, which is at least 24.
C28_Capacity ==
    /\ [](tickCount > 0 =>
            \A k \in TableKeys : Table(k).plantCount <= Capacity(Table(k).plantSize))
    /\ [][tickCount' = tickCount + 1 =>
            \A k \in TableKeys :
                /\ tickLog'[k].plantsToRemove >= 0
                /\ tickLog'[k].path = "full" /\ ~tickLog'[k].replanted
                   /\ ~tickLog'[k].harvested =>
                       TableNext(k).plantCount =
                           Table(k).plantCount - tickLog'[k].deathCount
                               - tickLog'[k].plantsToRemove
                /\ tickLog'[k].plantsToRemove > 0 =>
                       /\ TableNext(k).plantCount = Capacity(TableNext(k).plantSize)
                       /\ TableNext(k).plantCount >= 24]_vars

\* a table of 480 plants of 67.1 cm, too moist to be harvested, after its tick: the
\* crowding step has removed 456 and left the minimum of 24
C28_Witness ==
    /\ tickCount = 1
    /\ tickLog[SubjectKey].path = "full"
    /\ ~tickLog[SubjectKey].harvested
    /\ tickLog[SubjectKey].plantsBefore = 480
    /\ tickLog[SubjectKey].plantsToRemove = 456
    /\ Table(SubjectKey).plantCount = 24
    /\ Table(SubjectKey).plantSize > 67 * Scale
    /\ FloorMaxPlants(Table(SubjectKey).plantSize) < 24

-----------------------------------------------------------------------------
(* Ventilation time across midnight (SensorSimulator.ts 87-98, 70-75) *)

\* C29: while a greenhouse's fan stays on, the elapsed ventilation time counts the
\* ticks since the fan was first seen on: from a tick in which it is not negative,
\* the next tick finds it one higher, so never negative and never back below 30,
\* also when minuteOfTheDay rolls over from 1439 to 0.
C29_ElapsedCountsTicks ==
    [][tickCount' = tickCount + 1 =>
          \A g \in GreenhouseIds :
              (/\ greenhouses[g].fan
               /\ MapHas(ventilationStartTime, g)
               /\ minuteOfTheDay - ventilationStartTime[g] >= 0
               /\ greenhouses'[g].fan) =>
                  /\ MapHas(ventilationStartTime', g)
                  /\ minuteOfTheDay' - ventilationStartTime'[g] =
                         minuteOfTheDay - ventilationStartTime[g] + 1]_vars

\* the fan has been on since minute 10 and the day has just rolled over: the next
\* tick will compute 0 - 10 minutes of ventilation
C29_Witness ==
    /\ tickCount = 1
    /\ minuteOfTheDay = 0
    /\ currentDay = InitialDay + 1
    /\ greenhouses[SubjectGreenhouse].fan
    /\ MapHas(ventilationStartTime, SubjectGreenhouse)
    /\ ventilationStartTime[SubjectGreenhouse] = 10

-----------------------------------------------------------------------------
(* Humidity from the constructed state (SensorSimulator.ts 100-117,        *)
(* GreenhouseManager.ts 61-70)                                             *)

\* C30: in every state reachable from the constructed one (humidity 60 in every
\* greenhouse), after any sequence of ticks and actuator commands, the humidity of
\* every greenhouse is 60.
C30_HumidityFixed ==
    \A g \in DOMAIN greenhouses : greenhouses[g].humidity = 60 * Scale

\* the fan was switched on and three ticks have ventilated since, the last one with
\* 2 minutes elapsed: the humidity is still 60
C30_Witness ==
    /\ tickCount = MaxTicks
    /\ callCount = 1
    /\ greenhouses[SubjectGreenhouse].fan
    /\ MapHas(ventilationStartTime, SubjectGreenhouse)
    /\ minuteOfTheDay - 1 - ventilationStartTime[SubjectGreenhouse] = 2
    /\ greenhouses[SubjectGreenhouse].humidity = 60 * Scale

-----------------------------------------------------------------------------
(* Populations a tick leaves behind (SensorSimulator.ts 198-230, 287-312). *)
(* SpecReached runs ticks from the constructed state and from states as    *)
(* earlier ticks leave them: a table is dead (0 plants of size 0) or has   *)
(* 24..480 plants, never more than the capacity of its size, and an        *)
(* over-fertilisation count only above fertility 100.                      *)

MaxReachedTicks == 2

ReachedSizes == {2 * Scale, 15 * Scale, 29800, 29900, 30 * Scale, 31 * Scale, 45 * Scale,
                 67100}
ReachedCounts == {24, 25, 100, 119, 120, 121, 240, 480}

ReachedPlants ==
    {[plantSize |-> 0, plantCount |-> 0]}
    \cup {p \in [plantSize : ReachedSizes, plantCount : ReachedCounts] :
              p.plantCount <= Capacity(p.plantSize)}

InitReachedCases ==
    \E plant \in ReachedPlants,
       temp \in {20 * Scale, 59950},
       moisture \in {5000, 10000, 40000, 50000, 80000},
       fertility \in {0, 100000, 150000},
       over \in {0, 9},
       water \in BOOLEAN :
         /\ over > 0 => fertility > 100 * Scale
         /\ greenhouses = [i \in GreenhouseIds |->
                [NewGreenhouse(InitialDay) EXCEPT
                    !.temperature = temp,
                    !.tables = [j \in TableIds |->
                        [NewTable(InitialDay) EXCEPT !.temperature = temp,
                                                     !.plantSize = plant.plantSize,
                                                     !.plantCount = plant.plantCount,
                                                     !.soilMoisture = moisture,
                                                     !.soilFertility = fertility,
                                                     !.water = water]]]]
         /\ overFertilizerTime = IF over = 0 THEN EmptyMap
                                 ELSE [k \in TableKeys |-> over]
         /\ ventilationStartTime = EmptyMap
         /\ minuteOfTheDay = 0
         /\ currentDay = InitialDay + 1
         /\ environmentData = <<8300>>

InitReached == InitReachedCases /\ InitManager

ReachedTick == tickCount < MaxReachedTicks /\ timerFires

NextReached == ReachedTick

SpecReached == InitReached /\ [][NextReached]_vars

\* C31: at the end of every tick each table's plantCount is either 0 or in 24..480:
\* a live table is never left with 1..23 plants.
C31_Population ==
    \A k \in TableKeys :
        \/ Table(k).plantCount = 0
        \/ Table(k).plantCount >= 24 /\ Table(k).plantCount <= 480

\* a dry table of 24 plants after its tick: the drought took one, the 23 left were
\* too few and the table was replanted with 480
C31_Witness ==
    /\ tickCount = 1
    /\ tickLog[SubjectKey].path = "full"
    /\ tickLog[SubjectKey].plantsBefore = 24
    /\ tickLog[SubjectKey].deathCount = 1
    /\ tickLog[SubjectKey].replanted
    /\ Table(SubjectKey).plantCount = 480

-----------------------------------------------------------------------------
(* Harvest and replant (SensorSimulator.ts 215-230, 287-312) *)

\* C32: every harvest is followed by a replant in the same tick: the table came
\* into the tick within the capacity of its size, so at 30 cm it has at most 121
\* plants, and the 5% that the harvest leaves are fewer than 24.
C32_HarvestReplants ==
    [][tickCount' = tickCount + 1 =>
          \A k \in TableKeys :
              tickLog'[k].harvested =>
                  /\ tickLog'[k].plantsBefore - tickLog'[k].deathCount <= 121
                  /\ tickLog'[k].plantsBefore - tickLog'[k].deathCount
                         - tickLog'[k].harvestCount < 24
                  /\ tickLog'[k].harvestReplanted
                  /\ TableNext(k).plantCount = 480
                  /\ TableNext(k).plantSize = 2 * Scale]_vars

\* a table as full as its size allows, 120 plants of 29.9 cm, after the tick in
\* which it reached 30 cm and was harvested: 114 were taken, the 6 left were replaced
\* by 480 new plants
C32_Witness ==
    /\ tickCount = 1
    /\ tickLog[SubjectKey].harvested
    /\ tickLog[SubjectKey].plantsBefore = 120
    /\ tickLog[SubjectKey].deathCount = 0
    /\ tickLog[SubjectKey].harvestCount = 114
    /\ tickLog[SubjectKey].harvestReplanted
    /\ Table(SubjectKey).plantCount = 480
    /\ Table(SubjectKey).plantSize = 2 * Scale

-----------------------------------------------------------------------------
(* The closed greenhouse heats up (SensorSimulator.ts 104-117, 123-134).   *)
(* SpecHeat runs the constructed manager for as long as the slowest drawn  *)
(* light level needs to take a greenhouse from 20 to above 60 degrees; the *)
(* operator gives at most one fan or shading command, during the first     *)
(* minutes.  The tick timer of startSimulation keeps firing as long as it  *)
(* is set, so the tick is weakly fair.                                     *)

MaxHeatTicks == 810
MaxHeatCalls == 1
LastCommandTick == 2     \* the operator's commands come before this many ticks

\* no shading, half, just short of full (Math.round leaves no light), full
HeatShadingArgs == {0, 50000, 99960, 100000}

HeatTick == tickCount < MaxHeatTicks /\ timerFires

HeatFanCall ==
    /\ callCount < MaxHeatCalls /\ tickCount <= LastCommandTick
    /\ \E g \in GreenhouseArgs, b \in BOOLEAN : setGreenhouseFan(g, b)

HeatShadingCall ==
    /\ callCount < MaxHeatCalls /\ tickCount <= LastCommandTick
    /\ \E g \in GreenhouseArgs, p \in HeatShadingArgs : setGreenhouseShading(g, p)

NextHeat == HeatTick \/ HeatFanCall \/ HeatShadingCall

\* the timer is set and its callback may run
TimerDue == tickCount < MaxHeatTicks /\ lane.at = "idle" /\ DOMAIN activeTimers # {}

\* the step that counts a tick.  Only HeatTick changes tickCount, it is possible
\* exactly when TimerDue holds, and it always adds one, so these are the steps of
\* HeatTick and weak fairness of the one is weak fairness of the other.
TickCounted == TimerDue /\ tickCount' = tickCount + 1

SpecHeat == Init /\ [][NextHeat]_vars /\ WF_tickCount(TickCounted)

\* every table of greenhouse g is dead
AllDead(g) ==
    \A t \in TableIds : greenhouses[g].tables[t].plantCount = 0
                        /\ greenhouses[g].tables[t].plantSize = 0

\* C33: if a greenhouse's fan stays off and its lightIntensity stays above 0, its
\* temperature eventually exceeds 60 degrees and from then on every table in it is
\* dead for good; in particular, when no actuator command is ever issued, every
\* table of every greenhouse is eventually dead.
C33_HeatDeath ==
    /\ \A g \in GreenhouseIds :
           [](~greenhouses[g].fan /\ greenhouses[g].lightIntensity > 0)
               => <>[](greenhouses[g].temperature > DEATH_TEMP /\ AllDead(g))
    /\ [](callCount = 0) => <>[](\A g \in GreenhouseIds : AllDead(g))

\* a greenhouse under half shading, fan off, 810 minutes after startup: it has passed
\* 60 degrees and its table has been killed by the heat and stayed dead
C33_Witness ==
    /\ tickCount = MaxHeatTicks
    /\ callCount = 1
    /\ ~greenhouses[SubjectGreenhouse].fan
    /\ greenhouses[SubjectGreenhouse].shading = 50000
    /\ greenhouses[SubjectGreenhouse].lightIntensity = 500
    /\ greenhouses[SubjectGreenhouse].temperature > DEATH_TEMP
    /\ AllDead(SubjectGreenhouse)
    /\ tickLog[SubjectKey].path = "dead"

-----------------------------------------------------------------------------
(* After stop() (GreenhouseManager.ts 120-129, 195-210) *)

\* stop() has been called: it alone clears the data-saving timer, and nothing sets
\* that timer again
Stopped == dataSaveInterval = "cleared"

\* C34: once stop() has been called, no further simulation tick is executed,
\* whatever calls follow.
C34_StopIsFinal ==
    [][Stopped => tickCount' = tickCount]_vars

\* stop(), then an accepted setSimulationSpeed, then a tick: the speed change found
\* the cleared handle still in simulationInterval and started a new timer, which
\* has fired
C34_Witness ==
    /\ Stopped
    /\ callCount = 2
    /\ tickCount = 1
    /\ lastCall.op = "tick"
    /\ minuteOfTheDay = 1
    /\ DOMAIN activeTimers = {simulationInterval}

-----------------------------------------------------------------------------
(* What ticks and setters leave alone (SensorSimulator.ts 78-235, 314-320, *)
(* GreenhouseManager.ts 132-180).  SpecFrame runs ticks and the five       *)
(* setters on a greenhouse whose actuators are in any position and whose   *)
(* table is about to grow, to be harvested and replanted, to be replanted  *)
(* after a drought, or to die of heat or of over-fertilisation.            *)

MaxFrameTicks == 2
MaxFrameCalls == 1

InitFrameCases ==
    \E plant \in {[plantSize |-> 2 * Scale, plantCount |-> 480, soilMoisture |-> 80 * Scale],
                  [plantSize |-> 29900, plantCount |-> 120, soilMoisture |-> 40 * Scale],
                  [plantSize |-> 14 * Scale, plantCount |-> 24, soilMoisture |-> 5 * Scale]},
       temp \in {20 * Scale, 60 * Scale},
       over \in {0, 9},
       water \in BOOLEAN, fertilizer \in BOOLEAN, fan \in BOOLEAN,
       shading \in {0, 50000},
       artLight \in {0, 600} :
         /\ greenhouses = [initializeGreenhouses(InitialDay) EXCEPT
                ![SubjectGreenhouse].temperature = temp,
                ![SubjectGreenhouse].fan = fan,
                ![SubjectGreenhouse].shading = shading,
                ![SubjectGreenhouse].lightIntensity = shadedLightIntensity(shading),
                ![SubjectGreenhouse].tables[SubjectTable] =
                    [temperature |-> temp, plantSize |-> plant.plantSize,
                     plantCount |-> plant.plantCount, soilMoisture |-> plant.soilMoisture,
                     soilFertility |-> (IF over > 0 THEN 150 * Scale ELSE 100 * Scale),
                     artLight |-> artLight, water |-> water,
                     fertilizer |-> fertilizer, plantedDate |-> InitialDay]]
         /\ overFertilizerTime = IF over = 0 THEN EmptyMap
                                 ELSE MapSet(EmptyMap, SubjectKey, over)
         /\ ventilationStartTime = EmptyMap
         /\ minuteOfTheDay = 0
         /\ currentDay = InitialDay + 1
         /\ environmentData = <<8300>>

InitFrame == InitFrameCases /\ InitManager

FrameTick == tickCount < MaxFrameTicks /\ timerFires

MayCallFrame == callCount < MaxFrameCalls

NextFrame ==
    \/ FrameTick
    \/ \E g \in GreenhouseArgs, t \in TableArgs, b \in BOOLEAN :
           MayCallFrame /\ setTableWatering(g, t, b)
    \/ \E g \in GreenhouseArgs, t \in TableArgs, b \in BOOLEAN :
           MayCallFrame /\ setTableFertilizer(g, t, b)
    \/ \E g \in GreenhouseArgs, b \in BOOLEAN : MayCallFrame /\ setGreenhouseFan(g, b)
    \/ \E g \in GreenhouseArgs, p \in ShadingArgs : MayCallFrame /\ setGreenhouseShading(g, p)
    \/ \E g \in GreenhouseArgs, t \in TableArgs, l \in LumenArgs :
           MayCallFrame /\ setTableLight(g, t, l)

SpecFrame == InitFrame /\ [][NextFrame]_vars

\* the fields of GreenhouseData and PlantTable that the engine and the setters write
HouseFields == {"lightIntensity", "temperature", "humidity", "fan", "shading"}
TableFields == {"temperature", "plantSize", "plantCount", "soilMoisture", "soilFertility",
                "artLight", "water", "fertilizer", "plantedDate"}

\* the field a setter writes, and the argument it writes there
HouseFieldOf(op) ==
    IF op = "setGreenhouseFan" THEN "fan"
    ELSE IF op = "setGreenhouseShading" THEN "shading" ELSE "none"
TableFieldOf(op) ==
    IF op = "setTableWatering" THEN "water"
    ELSE IF op = "setTableFertilizer" THEN "fertilizer"
    ELSE IF op = "setTableLight" THEN "artLight" ELSE "none"

-----------------------------------------------------------------------------
(* Fertilized from the start (SensorSimulator.ts 136-178).                 *)
(* SpecFertilized: the operator sets the water and fertilizer valves of    *)
(* the constructed tables before the first tick and leaves them; then the  *)
(* ticks run.                                                              *)

MaxFertilizedTicks == 12
MaxFertilizedCalls == 2

FertilizedTick == tickCount < MaxFertilizedTicks /\ timerFires

\* the valves are set before the first tick
MayCallFertilized == callCount < MaxFertilizedCalls /\ tickCount = 0

NextFertilized ==
    \/ FertilizedTick
    \/ \E g \in GreenhouseArgs, t \in TableArgs, b \in BOOLEAN :
           MayCallFertilized /\ setTableWatering(g, t, b)
    \/ \E g \in GreenhouseArgs, t \in TableArgs, b \in BOOLEAN :
           MayCallFertilized /\ setTableFertilizer(g, t, b)

SpecFertilized == Init /\ [][NextFertilized]_vars

\* C36: from the constructed state (soilFertility 100), a table whose water and
\* fertilizer valves are both on from the first tick, in a greenhouse at 60 degrees
\* or less, dies of over-fertilisation in its 11th tick: the check of tick 1 finds
\* 100, the check of tick 2 is the first to find more, the counter is n - 1 after
\* tick n, and the check of tick 11 counts 10.
C36_EleventhTick ==
    \A k \in TableKeys :
        (Table(k).water /\ Table(k).fertilizer) =>
            /\ greenhouses[k[1]].temperature <= DEATH_TEMP
            /\ tickCount = 1 =>
                   /\ ~MapHas(overFertilizerTime, k)
                   /\ Table(k).soilFertility = 119 * Scale
            /\ tickCount \in 2..10 =>
                   /\ MapHas(overFertilizerTime, k)
                   /\ overFertilizerTime[k] = tickCount - 1
                   /\ Table(k).soilFertility > 100 * Scale
            /\ tickCount \in 1..10 =>
                   tickLog[k].path = "full" /\ Table(k).plantCount = 480
            /\ tickCount = 11 =>
                   /\ tickLog[k].path = "overfert"
                   /\ tickLog[k].plantsBefore = 480
            /\ tickCount >= 11 =>
                   /\ Table(k).plantCount = 0 /\ Table(k).plantSize = 0
                   /\ ~MapHas(overFertilizerTime, k)

\* the 11th tick of the table whose two valves were opened at startup: it has just
\* died of over-fertilisation, at fertility 149 and 21.1 degrees
C36_Witness ==
    /\ tickCount = 11
    /\ callCount = 2
    /\ Table(SubjectKey).water /\ Table(SubjectKey).fertilizer
    /\ tickLog[SubjectKey].path = "overfert"
    /\ Table(SubjectKey).plantCount = 0
    /\ Table(SubjectKey).plantSize = 0
    /\ Table(SubjectKey).soilFertility = 149 * Scale
    /\ greenhouses[SubjectGreenhouse].temperature = 21100

-----------------------------------------------------------------------------
(* A table that is never fed (SensorSimulator.ts 155-196, 245-252, 314-320). *)
(* SpecLean: from the constructed greenhouses the operator issues a few      *)
(* commands around the first ticks (water, fertilizer and lamp of a table,   *)
(* fan and shading of a greenhouse, existing ids only) and the ticks run on  *)
(* until the first table has dried out and been replanted.                   *)

MaxLeanTicks == 720
MaxLeanCalls == 2

LeanTick == tickCount < MaxLeanTicks /\ timerFires

MayCallLean == callCount < MaxLeanCalls /\ tickCount <= LastCommandTick

NextLean ==
    \/ LeanTick
    \/ \E g \in GreenhouseIds, t \in TableIds, b \in BOOLEAN :
           MayCallLean /\ setTableWatering(g, t, b)
    \/ \E g \in GreenhouseIds, t \in TableIds, b \in BOOLEAN :
           MayCallLean /\ setTableFertilizer(g, t, b)
    \/ \E g \in GreenhouseIds, t \in TableIds, l \in {0, 600} :
           MayCallLean /\ setTableLight(g, t, l)
    \/ \E g \in GreenhouseIds, b \in BOOLEAN : MayCallLean /\ setGreenhouseFan(g, b)
    \/ \E g \in GreenhouseIds, p \in {0, 50000} :
           MayCallLean /\ setGreenhouseShading(g, p)

SpecLean == Init /\ [][NextLean]_vars

\* water and fertilizer valve of table k are both on
Fed(k) == Table(k).water /\ Table(k).fertilizer

\* C37: from the constructed state, a table whose water and fertilizer valves are
\* never on in the same tick is never harvested.  In a tick with the two valves not
\* both on its soilFertility goes down by 1 (not below 0), or, when the tick replants
\* it, to that plus 20 and at most 100; while the table lives it is 100 - n after
\* tick n up to the 100th and at most 20 afterwards; its plantSize stays below 30 cm.
C37_NeverHarvested ==
    /\ [][\A k \in TableKeys :
              (tickCount' = tickCount + 1 /\ ~Fed(k) /\ tickLog'[k].path = "full") =>
                  /\ ~tickLog'[k].harvested
                  /\ Table(k)'.soilFertility =
                         IF tickLog'[k].replanted
                         THEN Min(100 * Scale,
                                  Max(0, Table(k).soilFertility - FERTILIZER_DECAY)
                                      + 20 * Scale)
                         ELSE Max(0, Table(k).soilFertility - FERTILIZER_DECAY)]_vars
    /\ \A k \in TableKeys :
           [](~Fed(k)) =>
               [](/\ ~tickLog[k].harvested
                  /\ Table(k).plantSize < 30 * Scale
                  /\ Table(k).soilFertility <= 100 * Scale
                  /\ (tickCount <= 100 /\ Live(k)) =>
                         Table(k).soilFertility = (100 - tickCount) * Scale
                  /\ (tickCount >= 100 /\ Live(k)) =>
                         Table(k).soilFertility <= 20 * Scale)

\* the tick in which the half-shaded, never watered and never fertilized table,
\* down to fewer than 24 plants by drought, is replanted: soilFertility goes from 0
\* to 20, and it has not been harvested
C37_Witness ==
    /\ tickCount = 712
    /\ ~Table(SubjectKey).water /\ ~Table(SubjectKey).fertilizer
    /\ greenhouses[SubjectGreenhouse].shading = 50000
    /\ tickLog[SubjectKey].path = "full"
    /\ tickLog[SubjectKey].replanted
    /\ ~tickLog[SubjectKey].harvested
    /\ Table(SubjectKey).plantCount = 480
    /\ Table(SubjectKey).plantSize = 2 * Scale
    /\ Table(SubjectKey).soilFertility = 20 * Scale

=============================================================================
